---- MODULE Spec2Model ----
(***************************************************************************)
(* freePanes: a model of the renderer's cross-pane synchronisation and     *)
(* action recording (src/renderer.js), and of the main process's capture   *)
(* handlers that replay a recorded log in a headless browser and that open *)
(* and close the manual-mode browsers (src/main.js).                       *)
(*                                                                         *)
(* The host (renderer process) keeps the pane set `webviews`, the global   *)
(* syncSettings and the recorder state.  Every pane owns an isolated page  *)
(* context in which setupWebviewSync injects the sync script.  The page    *)
(* talks to the host through console messages (msgs), the host talks to    *)
(* the page through executeJavaScript (execQueue).  Both channels are      *)
(* asynchronous and ordered per pane.                                      *)
(*                                                                         *)
(* Time.  The code compares Date.now() with a stored time stamp            *)
(* (now - lastClickTime < 100) and arms timers (setTimeout(f, 50)).  The   *)
(* model keeps, for every stored time stamp, the time elapsed since it     *)
(* (Date.now() - stamp, capped at the threshold it is compared with), and  *)
(* for every timer the time left until it is due.  Tick lets TickMs pass.  *)
(* A time stamp of 0 (never) is an elapsed time at its cap.                *)
(* A timer fires when it is due; a console message, a script and an       *)
(* animation frame arrive before TickMs have passed.                       *)
(*                                                                         *)
(* Left out: the RECORD: messages of the in-page recorder and its          *)
(* window.isRecording flag (the host's console-message handler discards    *)
(* every RECORD: message, renderer.js 692-695), the mouseout handler of the *)
(* hover observer, and the DOM of the host window.                         *)
(***************************************************************************)
EXTENDS Integers, Sequences, FiniteSets, TLC

----------------------------------------------------------------------------
(* Bounds of the model *)

NumPanes == 2
MaxUserActions == 2
MaxToggles == 2
MaxNavigations == 1
MaxRecordings == 2
MaxListeners == 2
MaxQueue == 2
MaxMsgs == 1
MaxLog == 3
TickMs == 50
ScrollbarWidth == 2

(* Program constants: the delays and thresholds of renderer.js, in ms *)

ClickThrottle == 100
ScrollThrottle == 50
DedupWindow == 100
SyncClearDelay == 50
DomReadyDelay == 100
ScrollbarDelay == 150
InputDebounce == 500
HoverDebounce == 200

Panes == 1..NumPanes

Channels == {"scroll", "click", "hover", "input"}

\* let syncSettings = {...}
DefaultSyncSettings ==
  [scroll |-> TRUE, navigation |-> TRUE, click |-> TRUE, hover |-> FALSE, input |-> FALSE]

\* let currentURL = "http://localhost:8080/"
CurrentURL == "http://localhost:8080/"

BlankURL == "about:blank"

\* The URLs a pane can show; "" is what getURL() answers before anything loaded.
URLs == {CurrentURL, BlankURL}

NoURL == "none"

\* The devices of the fallback table that the fallback preset "responsive" lists.
Devices ==
  [n \in {"iPhone 14 Pro", "iPad Air", "MacBook Air"} |->
     CASE n = "iPhone 14 Pro" -> [width |-> 393, height |-> 852]
       [] n = "iPad Air"      -> [width |-> 820, height |-> 1180]
       [] n = "MacBook Air"   -> [width |-> 1280, height |-> 800]]

\* presets.responsive
DeviceOrder == <<"iPhone 14 Pro", "iPad Air", "MacBook Air">>

DeviceNames == DOMAIN Devices

\* The lists presets.json can give the preset "responsive": one pane per
\* device, or every pane bound to the same device (nothing keeps a preset from
\* naming a device more than once).
PresetLists ==
  { [p \in Panes |-> DeviceOrder[((p - 1) % Len(DeviceOrder)) + 1]],
    [p \in Panes |-> DeviceOrder[1]] }

Min(a, b) == IF a < b THEN a ELSE b

Max(a, b) == IF a > b THEN a ELSE b

\* Time passing on an elapsed time capped at cap, and on a timer.
Elapse(since, cap) == Min(since + TickMs, cap)

CountDown(left) == Max(left - TickMs, 0)

----------------------------------------------------------------------------
(* The document shown at CurrentURL: a small DOM *)

Dom ==
  [e \in {"form", "submit", "email", "link"} |->
     CASE e = "form"   -> [id |-> "", nodeName |-> "form", classes |-> <<"login", "active">>,
                           parent |-> "body", index |-> 2, tagName |-> "FORM",
                           x |-> 100, y |-> 150, text |-> "Sign in Help"]
       [] e = "submit" -> [id |-> "submit", nodeName |-> "button", classes |-> <<>>,
                           parent |-> "form", index |-> 1, tagName |-> "BUTTON",
                           x |-> 60, y |-> 140, text |-> "Sign in"]
       [] e = "email"  -> [id |-> "email", nodeName |-> "input", classes |-> <<>>,
                           parent |-> "form", index |-> 2, tagName |-> "INPUT",
                           x |-> 100, y |-> 120, text |-> ""]
       [] e = "link"   -> [id |-> "", nodeName |-> "a", classes |-> <<>>,
                           parent |-> "form", index |-> 3, tagName |-> "A",
                           x |-> 140, y |-> 140, text |-> "Help"]]

Elements == DOMAIN Dom

\* The elements the user clicks, types into and hovers in the model.
ClickTargets == {"submit", "link"}

InputTargets == {"email"}

HoverTargets == {"submit"}

NoElement == "null"

\* c.includes('active') || c.includes('hover') || c.includes('focus'), on the
\* class tokens of Dom.
IsDynamicClass(c) == c \in {"active", "hover", "focus"}

RECURSIVE JoinWith(_, _)
JoinWith(parts, sep) ==
  IF parts = <<>> THEN ""
  ELSE IF Len(parts) = 1 THEN parts[1]
  ELSE parts[1] \o sep \o JoinWith(Tail(parts), sep)

RECURSIVE FilterStable(_)
FilterStable(cs) ==
  IF cs = <<>> THEN <<>>
  ELSE IF IsDynamicClass(Head(cs)) THEN FilterStable(Tail(cs))
  ELSE <<Head(cs)>> \o FilterStable(Tail(cs))

FirstTwo(s) == IF Len(s) <= 2 THEN s ELSE SubSeq(s, 1, 2)

NthChild(k) ==
  CASE k = 1 -> ":nth-child(1)" [] k = 2 -> ":nth-child(2)" [] OTHER -> ":nth-child(3)"

\* The selector path of syncClickHandler: walk up from the target, stop at
\* the first element with an id.
RECURSIVE ClickPath(_)
ClickPath(e) ==
  IF e = "body" THEN <<>>
  ELSE IF Dom[e].id # "" THEN <<"#" \o Dom[e].id>>
  ELSE LET cls == JoinWith(FirstTwo(FilterStable(Dom[e].classes)), ".")
           sel == Dom[e].nodeName \o (IF cls # "" THEN "." \o cls ELSE "")
                    \o NthChild(Dom[e].index)
       IN  ClickPath(Dom[e].parent) \o <<sel>>

ClickSelector(e) == JoinWith(ClickPath(e), " > ")

\* generateSelector for an element with an id (its first branch); the model
\* hovers only such elements.
generateSelector(e) == "#" \o Dom[e].id

\* document.querySelector(selector) in a pane showing url.
QuerySelector(url, selector) ==
  IF url = CurrentURL /\ \E e \in Elements : ClickSelector(e) = selector
  THEN CHOOSE e \in Elements : ClickSelector(e) = selector
  ELSE NoElement

\* document.getElementById(id) in a pane showing url.
GetElementById(url, id) ==
  IF url = CurrentURL /\ \E e \in Elements : Dom[e].id = id
  THEN CHOOSE e \in Elements : Dom[e].id = id
  ELSE NoElement

\* The payload of SYNC:CLICK.
ClickData(e) ==
  [selector |-> ClickSelector(e), x |-> Dom[e].x, y |-> Dom[e].y,
   tagName |-> Dom[e].tagName, text |-> Dom[e].text]

\* The payload of SYNC:HOVER.
HoverData(e) == [selector |-> generateSelector(e), tagName |-> Dom[e].tagName]

\* The payload of SYNC:INPUT.
InputData(e, value) == [id |-> Dom[e].id, value |-> value]

----------------------------------------------------------------------------
(* Scroll geometry of a document in a viewport *)

\* The layout of a document of content size cw x ch in a viewport of
\* innerWidth x innerHeight W x H, with classic scrollbars of thickness sb (0:
\* overlay or hidden scrollbars).  A scrollbar is shown when the content
\* overflows; it takes its thickness from the other axis.  innerWidth and
\* innerHeight include the scrollbars, clientWidth, clientHeight and the
\* scroll sizes do not.
MakeDoc(W, H, cw, ch, sb) ==
  LET v1 == ch > H
      h1 == cw > W - (IF v1 THEN sb ELSE 0)
      v2 == ch > H - (IF h1 THEN sb ELSE 0)
      h2 == cw > W - (IF v2 THEN sb ELSE 0)
      clientW == W - (IF v2 THEN sb ELSE 0)
      clientH == H - (IF h2 THEN sb ELSE 0)
  IN  [innerWidth |-> W, innerHeight |-> H, clientWidth |-> clientW, clientHeight |-> clientH,
       scrollWidth |-> Max(cw, clientW), scrollHeight |-> Max(ch, clientH)]

\* How far the browser lets the document scroll.
MaxScrollX(doc) == doc.scrollWidth - doc.clientWidth

MaxScrollY(doc) == doc.scrollHeight - doc.clientHeight

RECURSIVE Gcd(_, _)
Gcd(a, b) == IF b = 0 THEN a ELSE Gcd(b, a % b)

\* The number n / d (d > 0), in lowest terms.
Frac(n, d) ==
  LET g == Gcd(IF n < 0 THEN -n ELSE n, d)
  IN  IF g = 0 THEN [n |-> 0, d |-> 1] ELSE [n |-> n \div g, d |-> d \div g]

\* The pixel the browser scrolls to for a requested coordinate n / d: the
\* nearest pixel inside the scrollable range.
ScrollPixel(n, d, max) == Max(0, Min((2 * n + d) \div (2 * d), max))

\* The payload of SYNC:SCROLL: scrollX / Math.max(1, scrollWidth - innerWidth), ...
ScrollData(doc, x, y) ==
  [percentX |-> Frac(x, Max(1, doc.scrollWidth - doc.innerWidth)),
   percentY |-> Frac(y, Max(1, doc.scrollHeight - doc.innerHeight))]

\* A variant that takes the fractions of the viewport size instead of the
\* scrollable range.
ApplyScrollOfViewport(doc, data) ==
  [x |-> ScrollPixel(data.percentX.n * doc.innerWidth, data.percentX.d, MaxScrollX(doc)),
   y |-> ScrollPixel(data.percentY.n * doc.innerHeight, data.percentY.d, MaxScrollY(doc))]

\* applySyncAction, scroll branch: window.scrollTo({left: percentX * maxX,
\* top: percentY * maxY}), with maxX = scrollWidth - innerWidth.  Answers the
\* position the document scrolls to.
ApplyScroll(doc, data) ==
  LET maxX == doc.scrollWidth - doc.innerWidth
      maxY == doc.scrollHeight - doc.innerHeight
  IN  [x |-> ScrollPixel(data.percentX.n * maxX, data.percentX.d, MaxScrollX(doc)),
       y |-> ScrollPixel(data.percentY.n * maxY, data.percentY.d, MaxScrollY(doc))]

\* The layout every pane has in the specifications that are not about scroll
\* geometry: a page two pixels taller than the viewport.
DefaultDoc == MakeDoc(8, 8, 8, 10, 0)

\* about:blank: nothing to scroll.
BlankDoc == MakeDoc(8, 8, 0, 0, 0)

----------------------------------------------------------------------------
VARIABLES
  syncSettings,          \* the global sync settings
  hideScrollbars,        \* the scrollbar toggle
  isRecording,           \* the recorder's state
  deviceSpecificActions, \* device name -> recorded log
  uiMode,                \* the mode set by setUIMode
  webviews,              \* pane -> host side fields of the webview element
  layouts,               \* pane -> layout of the document at CurrentURL in that pane
  probe,                 \* a scroll position taken through the percent conversion
  pages,                 \* pane -> state of the page context
  execQueue,             \* pane -> scripts sent with executeJavaScript, in flight
  msgs,                  \* pane -> console messages in flight to the host
  userActions,           \* history: the user's actions in the panes, in order
  dispatched,            \* history: user action -> number of syncToOtherWebviews calls for it
  dropped,               \* history: user actions whose message the host did not forward
  session,               \* history: the recording session
  budget,                \* toggles, navigations and recordings so far
  replay,                \* the cycle of screenshotAllWithReplay
  capture,               \* main process: the call of capture-playwright-screenshot
  manual,                \* main process: the manual browsers
  shell,                 \* the host window: presets, device count, URL history, localStorage
  cycle                  \* the capture cycle of screenshotAll / screenshotAllWithReplay

vars ==
  <<syncSettings, hideScrollbars, isRecording, deviceSpecificActions, uiMode, webviews,
    layouts, probe, pages, execQueue, msgs, userActions, dispatched, dropped, session, budget,
    replay, capture, manual, shell, cycle>>

hostVars == <<syncSettings, hideScrollbars, isRecording, deviceSpecificActions, uiMode>>

historyVars == <<userActions, dispatched, dropped, session>>

docVars == <<layouts, probe>>

captureVars == <<replay, capture, manual>>

shellVars == <<shell, cycle>>

\* A page context right after a document loaded: no sync script in it.
\* sinceEmit: history, the time since its last SYNC:CLICK message.
FreshPage ==
  [hasScript |-> FALSE, chans |-> {}, isProcessingSync |-> FALSE,
   sinceClick |-> ClickThrottle, sinceScroll |-> ScrollThrottle, sinceEmit |-> ClickThrottle,
   lastHoveredElement |-> NoElement, value |-> "", scroll |-> [x |-> 0, y |-> 0],
   rafs |-> <<>>, timers |-> <<>>]

\* webview.lastRecordedAction = { time: 0, type: '', data: '' }
NoRecordedAction == [since |-> DedupWindow, type |-> ""]

NoSession ==
  [state |-> "none", clicks |-> <<>>, clean |-> FALSE, settled |-> FALSE, discarded |-> 0]

NoBudgetUsed == [toggles |-> 0, navigations |-> 0, recordings |-> 0]

\* No cycle of screenshotAllWithReplay is running.  found: the logs as the
\* last cycle found them when it started, handed: the device name and the
\* deviceActions of each pane the cycle has reached (history; the age of an
\* entry is left out of both).
NoReplay ==
  [running |-> FALSE, i |-> 0, cycles |-> 0, found |-> [d \in DOMAIN Devices |-> <<>>],
   handed |-> <<>>]

\* No call of capture-playwright-screenshot is running: let browser = null.
\* marked: an element of the page carries data-playwright-click-target.
\* attempted, trace, last, threw: history of the replay loop.
NoCapture ==
  [pc |-> "idle", browser |-> "null", recordedActions |-> <<>>, i |-> 0, op |-> "",
   attempted |-> <<>>, trace |-> <<>>, last |-> [i |-> 0, steps |-> <<>>],
   threw |-> {}, calls |-> 0, marked |-> FALSE]

\* let manualBrowsers = []; no call of open-manual-browsers is running.
\* active: manualModeActive of the renderer; btnDisabled: the disabled
\* property of the Manual Mode button; launched, open: the browsers the
\* running or last call launched, the browsers that are open (history); op:
\* the manual-mode function of the renderer that completed last, held: the
\* browsers manualBrowsers had when its handler started, closeTried: those
\* on which the handler called close, ended: a session that was opened has
\* been ended by the captures or by cancelMode (history).
NoManual ==
  [pc |-> "idle", k |-> 0, current |-> 0, browsers |-> <<>>, manualBrowsers |-> <<>>,
   active |-> FALSE, launched |-> {}, open |-> {}, result |-> "none", calls |-> 0,
   btnDisabled |-> FALSE, op |-> "none", held |-> {}, closeTried |-> {}, ended |-> FALSE]

\* The preset mappings the start-up code can end with: the fallback table or
\* the content of presets.json, which need not have the key "responsive" and
\* can list a device name that the device table does not have.
PresetMappings ==
  { [n \in {"responsive", "mobile"} |->
       IF n = "responsive" THEN DeviceOrder ELSE <<"iPhone 14 Pro", "iPad Air">>],
    [n \in {"mobile"} |-> <<"iPhone 14 Pro", "iPad Air">>],
    [n \in {"responsive"} |-> <<"iPhone 14 Pro", "Pixel 7", "MacBook Air">>],
    [n \in {"responsive"} |-> <<"iPad Air", "iPhone 14 Pro", "iPad Air">>] }

\* The host window after DOMContentLoaded, before loadPresetInternal ran:
\* the preset mapping, the text of #deviceCount, urlHistory and the item
\* "urlHistory" of localStorage ("null": no such item).
\* loads, overflow, saves, savedAt: history (calls of loadPresetInternal, a
\* RangeError it threw, calls of saveToHistory, the URL of each call).
NoShell ==
  [presets |-> [n \in {"responsive"} |-> DeviceOrder], deviceCount |-> 0, urlHistory |-> <<>>,
   localStorage |-> "null", loads |-> 0, overflow |-> FALSE, saves |-> 0, savedAt |-> <<>>,
   active |-> "none", resizeTimer |-> FALSE, rebuiltWhileScreenshotting |-> FALSE]

\* No capture cycle is running: let isScreenshotting = false.  deviceName:
\* webview.deviceName of the iteration that is running.
\* saved, failed, written, report, cycles: history (the loop indices whose
\* file was written, those whose capture or write threw, the files written
\* in order, the counts the alert showed, the cycles started).
NoCycle ==
  [pc |-> "idle", replaying |-> FALSE, i |-> 0, totalCount |-> 0, successCount |-> 0,
   isScreenshotting |-> FALSE, deviceName |-> "", saved |-> {}, failed |-> {},
   written |-> <<>>, report |-> [successCount |-> -1, totalCount |-> -1], cycles |-> 0]

EnabledChannels(s) == {c \in Channels : s[c]}

\* updateScrollSyncState: scroll sync is forced off while scrollbars are hidden
\* and forced on when they are shown.
updateScrollSyncState(settings, hide) == [settings EXCEPT !.scroll = ~hide]

\* createViewport, as loadPresetInternal calls it for a device of the preset:
\* the webview starts loading currentURL.  navigated: the did-navigate events
\* of the webview that the host has not handled yet.
createViewport(deviceName) ==
  [deviceName |-> deviceName, url |-> "", loading |-> CurrentURL,
   listeners |-> 0, lastRecordedAction |-> NoRecordedAction, setupTimers |-> <<>>,
   navigated |-> <<>>]

\* An initial state: the settings, the pane set wvs with the pages pgs in
\* it, the layouts lay of their documents; nothing in flight, no history.
InitWith(settings, hide, wvs, pgs, lay, pr) ==
  /\ hideScrollbars = hide
  /\ syncSettings = settings
  /\ isRecording = FALSE
  /\ deviceSpecificActions = [d \in DeviceNames |-> <<>>]
  /\ uiMode = "default"
  /\ webviews = wvs
  /\ layouts = lay
  /\ probe = pr
  /\ pages = pgs
  /\ execQueue = [p \in Panes |-> <<>>]
  /\ msgs = [p \in Panes |-> <<>>]
  /\ userActions = <<>>
  /\ dispatched = [a \in 1..MaxUserActions |-> 0]
  /\ dropped = {}
  /\ session = NoSession
  /\ budget = NoBudgetUsed
  /\ replay = NoReplay
  /\ capture = NoCapture
  /\ manual = NoManual
  /\ shell = NoShell
  /\ cycle = NoCycle

NoProbe ==
  [state |-> "none", doc |-> DefaultDoc, from |-> [x |-> 0, y |-> 0],
   data |-> ScrollData(DefaultDoc, 0, 0), to |-> [x |-> 0, y |-> 0]]

\* The state after DOMContentLoaded: updateScrollSyncState and
\* loadPresetInternal("responsive") have run, no pane has loaded yet.
Init ==
  \E preset \in PresetLists :
    InitWith(updateScrollSyncState(DefaultSyncSettings, TRUE), TRUE,
             [p \in Panes |-> createViewport(preset[p])],
             [p \in Panes |-> FreshPage],
             [p \in Panes |-> DefaultDoc], NoProbe)

----------------------------------------------------------------------------
(* Helpers *)

RemoveAt(s, i) == SubSeq(s, 1, i - 1) \o SubSeq(s, i + 1, Len(s))

MarkStale(s) == [i \in DOMAIN s |-> [s[i] EXCEPT !.stale = TRUE]]

NoData == [selector |-> ""]

\* The sync script, as setupWebviewSync builds it from the settings of the moment.
InjectScript(settings) ==
  [kind |-> "inject", chans |-> EnabledChannels(settings), type |-> "", data |-> NoData,
   origin |-> 0, issuedIn |-> 0]

\* The script of syncToOtherWebviews.  issuedIn: the recording session that
\* is running when the script is issued, 0 outside of a session (history).
ApplyScript(type, data, origin) ==
  [kind |-> "apply", chans |-> {}, type |-> type, data |-> data, origin |-> origin,
   issuedIn |-> IF isRecording THEN budget.recordings ELSE 0]

\* The test of reinjectSyncScripts and updateScrollbarVisibility.
IsLoaded(w) == w.url # "" /\ w.url # BlankURL

\* The test of the dom-ready handler and of updateScrollbarVisibility.
NeedsSyncScript(settings) == settings.scroll \/ settings.hover \/ settings.input

\* setupWebviewSync, host side: reset lastRecordedAction, add a console-message
\* listener.  The script itself travels through execQueue.
SetupWebview(w) ==
  [w EXCEPT !.listeners = @ + 1, !.lastRecordedAction = NoRecordedAction]

CanSetup(p) ==
  /\ webviews[p].listeners < MaxListeners
  /\ Len(execQueue[p]) < MaxQueue

CanArmSetup(p) ==
  webviews[p].listeners + Len(webviews[p].setupTimers) < MaxListeners

\* The layout of the document pane p shows.
DocOf(p) == IF webviews[p].url = CurrentURL THEN layouts[p] ELSE BlankDoc

\* Nothing is in flight between the pages and the host and no timer is armed.
Quiescent ==
  \A p \in Panes :
    /\ msgs[p] = <<>>
    /\ execQueue[p] = <<>>
    /\ pages[p].rafs = <<>>
    /\ pages[p].timers = <<>>
    /\ webviews[p].setupTimers = <<>>
    /\ webviews[p].loading = NoURL

----------------------------------------------------------------------------
(* Sync Dispatcher and Action Recorder *)

\* if (webview !== sourceWebview && webview.getURL())
SyncTargets(wvs, src) == {q \in Panes : q # src /\ wvs[q].url # ""}

\* A variant that issues the script only to a pane whose earlier scripts
\* have completed.
IssueWhenSettled(queue, src, type, data, origin) ==
  [q \in Panes |->
     IF q \in SyncTargets(webviews, src) /\ queue[q] = <<>>
     THEN Append(queue[q], ApplyScript(type, data, origin))
     ELSE queue[q]]

syncToOtherWebviews(queue, src, type, data, origin) ==
  [q \in Panes |->
     IF q \in SyncTargets(webviews, src)
     THEN Append(queue[q], ApplyScript(type, data, origin))
     ELSE queue[q]]

\* sinceTimestamp: the time elapsed since the entry's timestamp: Date.now().
storeDeviceSpecificAction(logs, p, type, data) ==
  LET deviceName == webviews[p].deviceName
      action == [type |-> type, data |-> data, deviceName |-> deviceName,
                 sinceTimestamp |-> 0, viewport |-> Devices[deviceName]]
  IN  [logs EXCEPT ![deviceName] = Append(@, action)]

\* The duplicate test of the console-message handler and of the completion
\* callback of syncToOtherWebviews.
IsDuplicate(lra, type) == lra.type = type /\ lra.since < DedupWindow

\* A variant that forwards whatever the settings are.
ForwardAlways(type) == TRUE

\* && syncSettings.<channel> in the console-message handler.
ForwardEnabled(type) == syncSettings[type]

\* One console-message listener handling message m of pane p.
\* st: the host state the listeners of one event run through.
Listener(st, p, m) ==
  IF ~ForwardEnabled(m.type) THEN [st EXCEPT !.dropped = @ \cup {m.origin}]
  ELSE
    LET sent ==
          [st EXCEPT
             !.queue = syncToOtherWebviews(st.queue, p, m.type, m.data, m.origin),
             !.dispatched = [@ EXCEPT ![m.origin] = @ + 1]]
    IN  IF m.type \in {"click", "input"} /\ isRecording /\ ~IsDuplicate(st.lra, m.type)
        THEN [sent EXCEPT !.logs = storeDeviceSpecificAction(st.logs, p, m.type, m.data),
                          !.lra = [since |-> 0, type |-> m.type]]
        ELSE sent

RECURSIVE RunListeners(_, _, _, _)
RunListeners(k, st, p, m) ==
  IF k = 0 THEN st ELSE RunListeners(k - 1, Listener(st, p, m), p, m)

\* The console-message event of pane p reaches the host: every listener that
\* setupWebviewSync added to the webview runs.
HostHandle(p) ==
  /\ msgs[p] # <<>>
  /\ LET m == Head(msgs[p])
         st0 == [queue |-> execQueue, logs |-> deviceSpecificActions,
                 lra |-> webviews[p].lastRecordedAction,
                 dispatched |-> dispatched, dropped |-> dropped]
         st == RunListeners(webviews[p].listeners, st0, p, m)
     IN  /\ \A q \in Panes : Len(st.queue[q]) <= MaxQueue
         /\ \A d \in DeviceNames : Len(st.logs[d]) <= MaxLog
         /\ msgs' = [msgs EXCEPT ![p] = Tail(@)]
         /\ execQueue' = st.queue
         /\ deviceSpecificActions' = st.logs
         /\ webviews' = [webviews EXCEPT ![p].lastRecordedAction = st.lra]
         /\ dispatched' = st.dispatched
         /\ dropped' = st.dropped
  /\ UNCHANGED <<syncSettings, hideScrollbars, isRecording, uiMode, docVars, captureVars, shellVars, pages,
                 userActions, session, budget>>

----------------------------------------------------------------------------
(* The sync script inside a page *)

Observes(pg, c) == pg.hasScript /\ c \in pg.chans

Silent(pg) == [page |-> pg, out |-> <<>>]

\* scrollHandler: what a scroll event does in page pg showing doc.
\* Answers the page and the console messages it logs.
scrollHandler(pg, doc, origin) ==
  IF ~Observes(pg, "scroll") THEN Silent(pg)
  ELSE IF pg.isProcessingSync THEN Silent(pg)
  ELSE IF pg.sinceScroll < ScrollThrottle THEN Silent(pg)
  ELSE [page |-> [pg EXCEPT !.sinceScroll = 0],
        out |-> <<[type |-> "scroll", data |-> ScrollData(doc, pg.scroll.x, pg.scroll.y),
                   origin |-> origin]>>]

\* syncClickHandler: what a click event on element e does in page pg.
syncClickHandler(pg, e, origin) ==
  IF ~Observes(pg, "click") THEN Silent(pg)
  ELSE IF pg.isProcessingSync THEN Silent(pg)
  ELSE IF pg.sinceClick < ClickThrottle THEN Silent(pg)
  ELSE [page |-> [pg EXCEPT !.sinceClick = 0, !.sinceEmit = 0],
        out |-> <<[type |-> "click", data |-> ClickData(e), origin |-> origin]>>]

IsOwnTimer(t, kind) == t.kind = kind /\ ~t.stale

\* clearTimeout(timer); timer = setTimeout(..., delay) of the debounced handlers.
Debounce(timers, kind, delay, e, origin) ==
  LET Other(t) == ~IsOwnTimer(t, kind)
  IN  Append(SelectSeq(timers, Other),
             [kind |-> kind, left |-> delay, el |-> e, origin |-> origin, stale |-> FALSE])

\* hoverOverHandler: a mouseover event on element e.
hoverOverHandler(pg, e, origin) ==
  IF ~Observes(pg, "hover") THEN Silent(pg)
  ELSE IF pg.isProcessingSync THEN Silent(pg)
  ELSE IF e = pg.lastHoveredElement THEN Silent(pg)
  ELSE Silent([pg EXCEPT !.lastHoveredElement = e,
                         !.timers = Debounce(@, "hover", HoverDebounce, e, origin)])

\* syncInputHandler: an input event on element e.
syncInputHandler(pg, e, origin) ==
  IF ~Observes(pg, "input") THEN Silent(pg)
  ELSE IF pg.isProcessingSync THEN Silent(pg)
  ELSE IF Dom[e].id # "" /\ Dom[e].tagName \in {"INPUT", "TEXTAREA"}
  THEN Silent([pg EXCEPT !.timers = Debounce(@, "input", InputDebounce, e, origin)])
  ELSE Silent(pg)

\* The body of the requestAnimationFrame callback of applySyncAction, up to
\* the setTimeout that clears isProcessingSync.  The events it dispatches run
\* the handlers the page has at that moment.
ApplyInPage(pg, url, doc, r) ==
  IF r.type = "scroll"
  THEN LET pos == ApplyScroll(doc, r.data)
           moved == [pg EXCEPT !.scroll = pos]
       IN  IF pos # pg.scroll THEN scrollHandler(moved, doc, r.origin) ELSE Silent(pg)
  ELSE IF r.type = "click" /\ r.data.selector # ""
  THEN LET e == QuerySelector(url, r.data.selector)
       IN  IF e # NoElement THEN syncClickHandler(pg, e, r.origin) ELSE Silent(pg)
  ELSE IF r.type = "hover" /\ r.data.selector # ""
  THEN LET e == QuerySelector(url, r.data.selector)
       IN  IF e # NoElement THEN hoverOverHandler(pg, e, r.origin) ELSE Silent(pg)
  ELSE IF r.type = "input" /\ r.data.id # ""
  THEN LET e == GetElementById(url, r.data.id)
       IN  IF e # NoElement
           THEN syncInputHandler([pg EXCEPT !.value = r.data.value], e, r.origin)
           ELSE Silent(pg)
  ELSE Silent(pg)

----------------------------------------------------------------------------
(* The user acts in a pane *)

\* History: a toggle, a navigation or another kind of user action during a
\* recording session.
Disturbed(s) == IF s.state = "recording" THEN [s EXCEPT !.clean = FALSE] ELSE s

UserActs(p, kind, r) ==
  /\ Len(userActions) < MaxUserActions
  /\ Len(msgs[p]) + Len(r.out) <= MaxMsgs
  /\ pages' = [pages EXCEPT ![p] = r.page]
  /\ msgs' = [msgs EXCEPT ![p] = @ \o r.out]
  /\ userActions' = Append(userActions, [kind |-> kind, pane |-> p])
  /\ UNCHANGED <<hostVars, webviews, docVars, captureVars, shellVars, execQueue, dispatched, dropped, budget>>

\* The user clicks element e in pane p.
UserClick(p, e) ==
  /\ webviews[p].url = CurrentURL
  /\ UserActs(p, "click", syncClickHandler(pages[p], e, Len(userActions) + 1))
  /\ session' = IF session.state = "recording"
                THEN [session EXCEPT !.clicks = Append(@, [pane |-> p, el |-> e])]
                ELSE session

\* The user scrolls pane p to the position pos.
UserScroll(p, pos) ==
  /\ webviews[p].url # ""
  /\ pos # pages[p].scroll
  /\ pos.x \in 0..MaxScrollX(DocOf(p))
  /\ pos.y \in 0..MaxScrollY(DocOf(p))
  /\ UserActs(p, "scroll",
              scrollHandler([pages[p] EXCEPT !.scroll = pos], DocOf(p),
                            Len(userActions) + 1))
  /\ session' = Disturbed(session)

\* The user moves the pointer onto element e of pane p.
UserHover(p, e) ==
  /\ webviews[p].url = CurrentURL
  /\ UserActs(p, "hover", hoverOverHandler(pages[p], e, Len(userActions) + 1))
  /\ session' = Disturbed(session)

\* The user types into element e of pane p, which then holds value.
UserInput(p, e, value) ==
  /\ webviews[p].url = CurrentURL
  /\ value # pages[p].value
  /\ UserActs(p, "input",
              syncInputHandler([pages[p] EXCEPT !.value = value], e,
                               Len(userActions) + 1))
  /\ session' = Disturbed(session)

----------------------------------------------------------------------------
(* Scripts, animation frames and timers of a page *)

\* A script sent with executeJavaScript runs in the page of pane q.  The sync
\* script runs the cleanup functions of the script before it and starts with
\* fresh closure variables; what that script still has pending (animation
\* frames, debounce timers) stays pending, bound to the old variables (stale).
\* For an apply script the promise then resolves and the completion callback
\* of syncToOtherWebviews runs in the host.
PageExec(q) ==
  /\ execQueue[q] # <<>>
  /\ LET s == Head(execQueue[q])
         pg == pages[q]
         NotClear(t) == t.kind # "clear"
     IN  /\ execQueue' = [execQueue EXCEPT ![q] = Tail(@)]
         /\ IF s.kind = "inject"
            THEN /\ pages' = [pages EXCEPT ![q] =
                       [pg EXCEPT !.hasScript = TRUE, !.chans = s.chans,
                                  !.isProcessingSync = FALSE,
                                  !.sinceClick = ClickThrottle,
                                  !.sinceScroll = ScrollThrottle,
                                  !.lastHoveredElement = NoElement,
                                  !.rafs = MarkStale(@),
                                  !.timers = MarkStale(SelectSeq(@, NotClear))]]
                 /\ UNCHANGED <<deviceSpecificActions, webviews>>
            ELSE /\ pages' = [pages EXCEPT ![q] =
                       IF pg.hasScript
                       THEN [pg EXCEPT !.isProcessingSync = TRUE,
                                       !.rafs = Append(@, [type |-> s.type, data |-> s.data,
                                                           origin |-> s.origin,
                                                           stale |-> FALSE])]
                       ELSE pg]
                 /\ IF /\ isRecording
                       /\ s.type \in {"click", "input"}
                       /\ ~IsDuplicate(webviews[q].lastRecordedAction, s.type)
                    THEN /\ Len(deviceSpecificActions[webviews[q].deviceName]) < MaxLog
                         /\ deviceSpecificActions' =
                              storeDeviceSpecificAction(deviceSpecificActions, q, s.type, s.data)
                         /\ webviews' = [webviews EXCEPT ![q].lastRecordedAction =
                                           [since |-> 0, type |-> s.type]]
                    ELSE UNCHANGED <<deviceSpecificActions, webviews>>
  /\ UNCHANGED <<syncSettings, hideScrollbars, isRecording, uiMode, docVars, captureVars, shellVars, msgs,
                 historyVars, budget>>

\* A variant that arms the clearing timer only after a dispatch to an element.
RafClearsAfterDispatchOnly(q) ==
  /\ pages[q].rafs # <<>>
  /\ LET r == Head(pages[q].rafs)
         res == ApplyInPage(pages[q], webviews[q].url, DocOf(q), r)
         clear == [kind |-> "clear", left |-> SyncClearDelay, el |-> NoElement,
                   origin |-> 0, stale |-> FALSE]
         missed == /\ r.type \in {"click", "hover"}
                   /\ QuerySelector(webviews[q].url, r.data.selector) = NoElement
     IN  /\ Len(msgs[q]) + Len(res.out) <= MaxMsgs
         /\ pages' = [pages EXCEPT ![q] =
               [res.page EXCEPT !.rafs = Tail(@),
                                !.timers = IF r.stale \/ missed THEN @ ELSE Append(@, clear)]]
         /\ msgs' = [msgs EXCEPT ![q] = @ \o res.out]
  /\ UNCHANGED <<hostVars, webviews, docVars, captureVars, shellVars, execQueue, historyVars, budget>>

\* requestAnimationFrame fires in the page of pane q: the oldest pending
\* applySyncAction applies its action and arms the timer that clears
\* isProcessingSync.  The timer of a replaced script (stale) clears the flag
\* of its own closure, which nothing reads any more.
RafFire(q) ==
  /\ pages[q].rafs # <<>>
  /\ LET r == Head(pages[q].rafs)
         res == ApplyInPage(pages[q], webviews[q].url, DocOf(q), r)
         clear == [kind |-> "clear", left |-> SyncClearDelay, el |-> NoElement,
                   origin |-> 0, stale |-> FALSE]
     IN  /\ Len(msgs[q]) + Len(res.out) <= MaxMsgs
         /\ pages' = [pages EXCEPT ![q] =
               [res.page EXCEPT !.rafs = Tail(@),
                                !.timers = IF r.stale THEN @ ELSE Append(@, clear)]]
         /\ msgs' = [msgs EXCEPT ![q] = @ \o res.out]
  /\ UNCHANGED <<hostVars, webviews, docVars, captureVars, shellVars, execQueue, historyVars, budget>>

\* A timer of the page of pane q is due: the setTimeout of applySyncAction,
\* of hoverOverHandler or of syncInputHandler.
TimerFire(q) ==
  /\ \E i \in DOMAIN pages[q].timers :
       LET t == pages[q].timers[i]
           pg == [pages[q] EXCEPT !.timers = RemoveAt(@, i)]
           out == CASE t.kind = "hover" ->
                         <<[type |-> "hover", data |-> HoverData(t.el), origin |-> t.origin]>>
                    [] t.kind = "input" ->
                         <<[type |-> "input", data |-> InputData(t.el, pg.value),
                            origin |-> t.origin]>>
                    [] OTHER -> <<>>
       IN  /\ t.left = 0
           /\ Len(msgs[q]) + Len(out) <= MaxMsgs
           /\ pages' = [pages EXCEPT ![q] =
                 IF t.kind = "clear" THEN [pg EXCEPT !.isProcessingSync = FALSE] ELSE pg]
           /\ msgs' = [msgs EXCEPT ![q] = @ \o out]
  /\ UNCHANGED <<hostVars, webviews, docVars, captureVars, shellVars, execQueue, historyVars, budget>>

----------------------------------------------------------------------------
(* Loading and navigation *)

\* if (webview.getURL() !== url) webview.loadURL(url), for every other pane.
syncNavigation(wvs, src, url) ==
  [q \in Panes |->
     IF q # src /\ wvs[q].url # url THEN [wvs[q] EXCEPT !.loading = url] ELSE wvs[q]]

\* Pane p finished loading url: did-navigate and dom-ready run in the host.
\* The new document has no sync script; scripts still in flight to the old
\* document are rejected (their promise's catch ignores it).
Loaded(p, url) ==
  LET arm == NeedsSyncScript(syncSettings)
      w1 == [webviews EXCEPT ![p].url = url, ![p].loading = NoURL,
                             ![p].setupTimers =
                                IF arm THEN Append(@, DomReadyDelay) ELSE @]
  IN  /\ arm => CanArmSetup(p)
      /\ webviews' = IF syncSettings.navigation THEN syncNavigation(w1, p, url) ELSE w1
      /\ pages' = [pages EXCEPT ![p] = FreshPage]
      /\ execQueue' = [execQueue EXCEPT ![p] = <<>>]

\* A load started by webview.src or webview.loadURL completes.
LoadDone(p) ==
  /\ webviews[p].loading # NoURL
  /\ Loaded(p, webviews[p].loading)
  /\ session' = Disturbed(session)
  /\ UNCHANGED <<hostVars, docVars, captureVars, shellVars, msgs, userActions, dispatched, dropped, budget>>

\* The page of pane p navigates by itself (a link, a script) to url.
PageNavigate(p, url) ==
  /\ budget.navigations < MaxNavigations
  /\ webviews[p].url # ""
  /\ webviews[p].url # url
  /\ webviews[p].loading = NoURL
  /\ Loaded(p, url)
  /\ budget' = [budget EXCEPT !.navigations = @ + 1]
  /\ session' = Disturbed(session)
  /\ UNCHANGED <<hostVars, docVars, captureVars, shellVars, msgs, userActions, dispatched, dropped>>

\* setTimeout(() => setupWebviewSync(webview), ...) of dom-ready and of
\* updateScrollbarVisibility fires.
SetupTimerFire(p) ==
  /\ \E i \in DOMAIN webviews[p].setupTimers :
       /\ webviews[p].setupTimers[i] = 0
       /\ Len(execQueue[p]) < MaxQueue
       /\ webviews' = [webviews EXCEPT
                         ![p] = SetupWebview([@ EXCEPT !.setupTimers = RemoveAt(@, i)])]
       /\ execQueue' = [execQueue EXCEPT ![p] = Append(@, InjectScript(syncSettings))]
  /\ UNCHANGED <<hostVars, docVars, captureVars, shellVars, pages, msgs, historyVars, budget>>

----------------------------------------------------------------------------
(* Sync toggles *)

Toggled ==
  /\ budget.toggles < MaxToggles
  /\ budget' = [budget EXCEPT !.toggles = @ + 1]
  /\ session' = Disturbed(session)

\* reinjectSyncScripts under the settings s.
Reinject(s) ==
  /\ \A p \in Panes : IsLoaded(webviews[p]) => CanSetup(p) /\ CanArmSetup(p)
  /\ webviews' = [p \in Panes |->
                    IF IsLoaded(webviews[p]) THEN SetupWebview(webviews[p])
                    ELSE webviews[p]]
  /\ execQueue' = [p \in Panes |->
                     IF IsLoaded(webviews[p]) THEN Append(execQueue[p], InjectScript(s))
                     ELSE execQueue[p]]

\* The click handler of a sync toggle (scroll, click, hover, input).  The
\* scroll toggle takes no clicks while scrollbars are hidden (pointer-events:
\* none, set by updateScrollSyncState).
ToggleSync(c) ==
  /\ c = "scroll" => ~hideScrollbars
  /\ Toggled
  /\ syncSettings' = [syncSettings EXCEPT ![c] = ~@]
  /\ Reinject(syncSettings')
  /\ UNCHANGED <<hideScrollbars, isRecording, deviceSpecificActions, uiMode, docVars, captureVars, shellVars,
                 pages, msgs, userActions, dispatched, dropped>>

ToggleNavigation ==
  /\ Toggled
  /\ syncSettings' = [syncSettings EXCEPT !.navigation = ~@]
  /\ UNCHANGED <<hideScrollbars, isRecording, deviceSpecificActions, uiMode, webviews,
                 docVars, captureVars, shellVars, pages, execQueue, msgs, userActions,
                 dispatched, dropped>>

\* The hide-scrollbars toggle: updateScrollSyncState, then
\* updateScrollbarVisibility, which re-arms setupWebviewSync after 150ms.
ToggleHideScrollbars ==
  /\ Toggled
  /\ hideScrollbars' = ~hideScrollbars
  /\ syncSettings' = updateScrollSyncState(syncSettings, hideScrollbars')
  /\ LET arm == NeedsSyncScript(syncSettings')
     IN  /\ \A p \in Panes : (arm /\ IsLoaded(webviews[p])) => CanArmSetup(p)
         /\ webviews' = [p \in Panes |->
                           IF arm /\ IsLoaded(webviews[p])
                           THEN [webviews[p] EXCEPT
                                   !.setupTimers = Append(@, ScrollbarDelay)]
                           ELSE webviews[p]]
  /\ UNCHANGED <<isRecording, deviceSpecificActions, uiMode, docVars, captureVars, shellVars, pages, execQueue,
                 msgs, userActions, dispatched, dropped>>

----------------------------------------------------------------------------
(* Action Recorder *)

\* A variant that keeps the logs.
KeptLogs(logs) == logs

\* deviceSpecificActions = {} of window.startRecording
ClearedLogs(logs) == [d \in DeviceNames |-> <<>>]

RECURSIVE SumLen(_, _)
SumLen(logs, S) ==
  IF S = {} THEN 0
  ELSE LET d == CHOOSE x \in S : TRUE IN Len(logs[d]) + SumLen(logs, S \ {d})

\* totalActions of window.stopRecording
TotalActions(logs) == SumLen(logs, DeviceNames)

StartRecording ==
  /\ budget.recordings < MaxRecordings
  /\ budget' = [budget EXCEPT !.recordings = @ + 1]
  /\ isRecording' = TRUE
  /\ deviceSpecificActions' = ClearedLogs(deviceSpecificActions)
  /\ uiMode' = "recording"
  /\ session' = [state |-> "recording", clicks |-> <<>>,
                 clean |-> Quiescent /\ syncSettings.click,
                 settled |-> FALSE,
                 discarded |-> TotalActions(deviceSpecificActions)]
  /\ UNCHANGED <<syncSettings, hideScrollbars, webviews, docVars, captureVars, shellVars, pages, execQueue, msgs,
                 userActions, dispatched, dropped>>

\* The stop button shows in the recording mode only (setUIMode).
StopRecording ==
  /\ uiMode = "recording"
  /\ isRecording' = FALSE
  /\ uiMode' = IF TotalActions(deviceSpecificActions) > 0 THEN "replay" ELSE "default"
  /\ session' = IF session.state = "recording"
                THEN [session EXCEPT !.state = "stopped", !.settled = Quiescent]
                ELSE session
  /\ UNCHANGED <<syncSettings, hideScrollbars, deviceSpecificActions, webviews, docVars, captureVars, shellVars,
                 pages, execQueue, msgs, userActions, dispatched, dropped, budget>>

----------------------------------------------------------------------------
(* Time *)

TimerDue ==
  \E p \in Panes :
    \/ \E i \in DOMAIN pages[p].timers : pages[p].timers[i].left = 0
    \/ \E i \in DOMAIN webviews[p].setupTimers : webviews[p].setupTimers[i] = 0

InFlight ==
  \E p \in Panes : msgs[p] # <<>> \/ execQueue[p] # <<>> \/ pages[p].rafs # <<>>

\* TickMs pass.  A timer fires when it is due, and a console message, a script
\* and an animation frame arrive, before that much time passes.
Tick ==
  /\ ~TimerDue
  /\ ~InFlight
  /\ pages' = [p \in Panes |->
       [pages[p] EXCEPT
          !.sinceClick = Elapse(@, ClickThrottle),
          !.sinceScroll = Elapse(@, ScrollThrottle),
          !.sinceEmit = Elapse(@, ClickThrottle),
          !.timers = [i \in DOMAIN @ |-> [@[i] EXCEPT !.left = CountDown(@)]]]]
  /\ webviews' = [p \in Panes |->
       [webviews[p] EXCEPT
          !.lastRecordedAction.since = Elapse(@, DedupWindow),
          !.setupTimers = [i \in DOMAIN @ |-> CountDown(@[i])]]]
  /\ deviceSpecificActions' = [d \in DeviceNames |->
       [i \in DOMAIN deviceSpecificActions[d] |->
          [deviceSpecificActions[d][i] EXCEPT !.sinceTimestamp = Elapse(@, DedupWindow)]]]
  /\ UNCHANGED <<syncSettings, hideScrollbars, isRecording, uiMode, docVars, captureVars, shellVars, execQueue,
                 msgs, historyVars, budget>>

----------------------------------------------------------------------------
(* The program from start-up: loading, navigation, the sync toggles and      *)
(* click sync                                                                *)

Next ==
  \/ \E p \in Panes : LoadDone(p)
  \/ \E p \in Panes, u \in URLs : PageNavigate(p, u)
  \/ \E p \in Panes : SetupTimerFire(p)
  \/ \E c \in Channels : ToggleSync(c)
  \/ ToggleNavigation
  \/ ToggleHideScrollbars
  \/ \E p \in Panes, e \in ClickTargets : UserClick(p, e)
  \/ \E p \in Panes : HostHandle(p)
  \/ \E p \in Panes : PageExec(p)
  \/ \E p \in Panes : RafFire(p)
  \/ \E p \in Panes : TimerFire(p)
  \/ Tick

Spec == Init /\ [][Next]_vars

----------------------------------------------------------------------------
(* The recorder: the program from start-up, with click sync and recording    *)

MaxRecorderToggles == 1

NextRecorder ==
  \/ \E p \in Panes : LoadDone(p)
  \/ \E p \in Panes : SetupTimerFire(p)
  \/ \E c \in Channels : budget.toggles < MaxRecorderToggles /\ ToggleSync(c)
  \/ \E p \in Panes, e \in ClickTargets : UserClick(p, e)
  \/ \E p \in Panes : HostHandle(p)
  \/ \E p \in Panes : PageExec(p)
  \/ \E p \in Panes : RafFire(p)
  \/ \E p \in Panes : TimerFire(p)
  \/ StartRecording
  \/ StopRecording
  \/ Tick

SpecRecorder == Init /\ [][NextRecorder]_vars

----------------------------------------------------------------------------
(* The channels: the panes are loaded and the sync script is installed       *)

\* The pane set after every pane loaded currentURL and setupWebviewSync ran
\* once for it under settings.
InstalledWebviews(preset) ==
  [p \in Panes |->
     [createViewport(preset[p]) EXCEPT !.url = CurrentURL, !.loading = NoURL,
                                       !.listeners = 1]]

InstalledPages(settings) ==
  [p \in Panes |->
     [FreshPage EXCEPT !.hasScript = TRUE, !.chans = EnabledChannels(settings)]]

DistinctPreset == [p \in Panes |-> DeviceOrder[((p - 1) % Len(DeviceOrder)) + 1]]

\* The user switched hover and input sync on before the panes loaded; the
\* dom-ready handler then installed the sync script in every pane.
InitChannels ==
  LET settings == [updateScrollSyncState(DefaultSyncSettings, TRUE)
                     EXCEPT !.hover = TRUE, !.input = TRUE]
  IN  InitWith(settings, TRUE, InstalledWebviews(DistinctPreset),
               InstalledPages(settings), [p \in Panes |-> DefaultDoc], NoProbe)

Values == {"a"}

NextChannels ==
  \/ \E c \in Channels : ToggleSync(c)
  \/ \E p \in Panes, e \in ClickTargets : UserClick(p, e)
  \/ \E p \in Panes, e \in HoverTargets : UserHover(p, e)
  \/ \E p \in Panes, e \in InputTargets, v \in Values : UserInput(p, e, v)
  \/ \E p \in Panes : HostHandle(p)
  \/ \E p \in Panes : PageExec(p)
  \/ \E p \in Panes : RafFire(p)
  \/ \E p \in Panes : TimerFire(p)
  \/ Tick

SpecChannels == InitChannels /\ [][NextChannels]_vars

\* Click and hover sync between the panes, the second of which shows
\* currentURL or, navigation sync being switched off, navigated to about:blank
\* and had the sync script installed by its dom-ready handler.  The event
\* loops run: a console message is handled, a script is executed, an animation
\* frame and a due timer fire, and time passes.
SpecApply ==
  /\ \E url \in URLs :
       LET settings == [updateScrollSyncState(DefaultSyncSettings, TRUE)
                          EXCEPT !.hover = TRUE, !.navigation = (url = CurrentURL)]
       IN  InitWith(settings, TRUE,
                    [InstalledWebviews(DistinctPreset) EXCEPT ![NumPanes].url = url],
                    InstalledPages(settings), [p \in Panes |-> DefaultDoc], NoProbe)
  /\ [][\/ \E p \in Panes, e \in ClickTargets : UserClick(p, e)
        \/ \E p \in Panes, e \in HoverTargets : UserHover(p, e)
        \/ \E p \in Panes : HostHandle(p)
        \/ \E p \in Panes : PageExec(p)
        \/ \E p \in Panes : RafFire(p)
        \/ \E p \in Panes : TimerFire(p)
        \/ Tick]_vars
  /\ WF_vars(Tick)
  /\ \A p \in Panes :
       /\ WF_vars(HostHandle(p))
       /\ WF_vars(PageExec(p))
       /\ WF_vars(RafFire(p))
       /\ WF_vars(TimerFire(p))

----------------------------------------------------------------------------
(* Scroll sync: scrollbars are shown, the panes are loaded and the sync      *)
(* script is installed                                                       *)

ViewportSize == 4
MaxContentSize == 7

\* The layouts of documents in a viewport of ViewportSize x ViewportSize on a
\* platform whose scrollbars are sb thick.
Layouts(sb) ==
  {MakeDoc(ViewportSize, ViewportSize, cw, ch, sb) :
     cw \in 0..MaxContentSize, ch \in 0..MaxContentSize}

\* The layouts of the panes of the scroll specification: of two widths and
\* two heights.
ScrollLayouts(sb) ==
  {MakeDoc(ViewportSize, ViewportSize, cw, ch, sb) :
     cw \in {ViewportSize - sb, ViewportSize + 1},
     ch \in {ViewportSize + 1, MaxContentSize}}

PositionsOf(doc) == [x : 0..MaxScrollX(doc), y : 0..MaxScrollY(doc)]

\* The user showed the scrollbars (which switches scroll sync on) and
\* updateScrollbarVisibility installed the sync script in every loaded pane.
InitScroll ==
  LET settings == updateScrollSyncState(DefaultSyncSettings, FALSE)
  IN  \E sb \in {0, ScrollbarWidth} :
        \E lay \in [Panes -> ScrollLayouts(sb)] :
          InitWith(settings, FALSE, InstalledWebviews(DistinctPreset),
                   InstalledPages(settings), lay, NoProbe)

NextScroll ==
  \/ \E p \in Panes, pos \in PositionsOf(MakeDoc(0, 0, MaxContentSize, MaxContentSize, 0)) :
       UserScroll(p, pos)
  \/ \E p \in Panes : HostHandle(p)
  \/ \E p \in Panes : PageExec(p)
  \/ \E p \in Panes : RafFire(p)
  \/ \E p \in Panes : TimerFire(p)
  \/ Tick

SpecScroll == InitScroll /\ [][NextScroll]_vars

----------------------------------------------------------------------------
(* The percent conversion of a scroll position, there and back *)

InitRoundTrip ==
  \E sb \in {0, ScrollbarWidth} :
    \E doc \in Layouts(sb) :
      \E pos \in PositionsOf(doc) :
        InitWith(updateScrollSyncState(DefaultSyncSettings, FALSE), FALSE,
                 InstalledWebviews(DistinctPreset),
                 InstalledPages(updateScrollSyncState(DefaultSyncSettings, FALSE)),
                 [p \in Panes |-> doc],
                 [NoProbe EXCEPT !.state = "start", !.doc = doc, !.from = pos])

\* The scroll observer converts the position: the payload of SYNC:SCROLL.
ProbeEmit ==
  /\ probe.state = "start"
  /\ probe' = [probe EXCEPT !.state = "emitted",
                            !.data = ScrollData(probe.doc, probe.from.x, probe.from.y)]
  /\ UNCHANGED <<hostVars, webviews, layouts, captureVars, shellVars, pages, execQueue, msgs, historyVars, budget>>

\* applySyncAction('scroll', data) on the same document.
ProbeApply ==
  /\ probe.state = "emitted"
  /\ probe' = [probe EXCEPT !.state = "applied", !.to = ApplyScroll(probe.doc, probe.data)]
  /\ UNCHANGED <<hostVars, webviews, layouts, captureVars, shellVars, pages, execQueue, msgs, historyVars, budget>>

NextRoundTrip == ProbeEmit \/ ProbeApply

SpecRoundTrip == InitRoundTrip /\ [][NextRoundTrip]_vars

----------------------------------------------------------------------------
(* A recording session and the replay-capture cycle: the panes are loaded    *)
(* and the sync script is installed                                          *)

MaxCycles == 1

\* A variant that keeps the logs.
CancelKeepsLogs(logs) == logs

\* deviceSpecificActions = {} of window.cancelMode
CancelledLogs(logs) == [d \in DeviceNames |-> <<>>]

\* window.cancelMode.  The cancel button shows in the manual, recording and
\* replay modes (setUIMode); manual mode is not active here.
cancelMode ==
  /\ uiMode # "default"
  /\ isRecording' = FALSE
  /\ deviceSpecificActions' = CancelledLogs(deviceSpecificActions)
  /\ uiMode' = "default"
  /\ session' = [session EXCEPT !.state = "cancelled",
                                !.discarded = TotalActions(deviceSpecificActions)]
  /\ UNCHANGED <<syncSettings, hideScrollbars, webviews, docVars, captureVars, shellVars, pages,
                 execQueue, msgs, userActions, dispatched, dropped, budget>>

\* window.screenshotAllWithReplay up to its first await.  Its button shows
\* in the replay mode only and is disabled while a cycle runs; without
\* recorded actions the function returns at once.
screenshotAllWithReplay ==
  /\ uiMode = "replay"
  /\ ~replay.running
  /\ replay.cycles < MaxCycles
  /\ TotalActions(deviceSpecificActions) > 0
  /\ LET Entries(log) == [j \in DOMAIN log |-> [log[j] EXCEPT !.sinceTimestamp = 0]]
         d == webviews[1].deviceName
     IN  replay' = [replay EXCEPT
                      !.running = TRUE, !.i = 1,
                      !.found = [n \in DeviceNames |-> Entries(deviceSpecificActions[n])],
                      !.handed = <<[deviceName |-> d,
                                    deviceActions |-> Entries(deviceSpecificActions[d])]>>]
  /\ UNCHANGED <<hostVars, webviews, docVars, shellVars, capture, manual, pages, execQueue, msgs,
                 historyVars, budget>>

\* The capture of webview replay.i returns to screenshotAllWithReplay: the
\* buffer was written, or the invocation or the write threw, which the loop
\* body catches; the loop goes on either way (successCount, which only the
\* alert shows, is left out) and reads deviceSpecificActions[deviceName] of
\* the next webview.  After the last webview the cycle ends:
\* setUIMode('default') and deviceSpecificActions = {}.
CaptureReturns ==
  /\ replay.running
  /\ IF replay.i < NumPanes
     THEN /\ LET Entries(log) == [j \in DOMAIN log |-> [log[j] EXCEPT !.sinceTimestamp = 0]]
                 d == webviews[replay.i + 1].deviceName
             IN  replay' = [replay EXCEPT
                              !.i = @ + 1,
                              !.handed =
                                Append(@, [deviceName |-> d,
                                           deviceActions |->
                                             Entries(deviceSpecificActions[d])])]
          /\ UNCHANGED <<uiMode, deviceSpecificActions, session>>
     ELSE /\ replay' = [replay EXCEPT !.running = FALSE, !.i = 0, !.cycles = @ + 1]
          /\ uiMode' = "default"
          /\ deviceSpecificActions' = [d \in DeviceNames |-> <<>>]
          /\ session' = [session EXCEPT !.state = "replayed",
                                        !.discarded = TotalActions(deviceSpecificActions)]
  /\ UNCHANGED <<syncSettings, hideScrollbars, isRecording, webviews, docVars, shellVars, capture,
                 manual, pages, execQueue, msgs, userActions, dispatched, dropped, budget>>

\* The user switched hover and input sync on before the panes loaded; the
\* dom-ready handler then installed the sync script in every pane.
InitSession ==
  LET settings == [updateScrollSyncState(DefaultSyncSettings, TRUE)
                     EXCEPT !.hover = TRUE, !.input = TRUE]
  IN  \E preset \in PresetLists :
        InitWith(settings, TRUE, InstalledWebviews(preset), InstalledPages(settings),
                 [p \in Panes |-> DefaultDoc], NoProbe)

\* The entry that starts a recording shows in the default mode.
NextSession ==
  \/ \E p \in Panes, e \in ClickTargets : UserClick(p, e)
  \/ \E p \in Panes, e \in HoverTargets : UserHover(p, e)
  \/ \E p \in Panes, e \in InputTargets, v \in Values : UserInput(p, e, v)
  \/ \E p \in Panes : HostHandle(p)
  \/ \E p \in Panes : PageExec(p)
  \/ \E p \in Panes : RafFire(p)
  \/ \E p \in Panes : TimerFire(p)
  \/ uiMode = "default" /\ StartRecording
  \/ StopRecording
  \/ cancelMode
  \/ screenshotAllWithReplay
  \/ CaptureReturns
  \/ Tick

SpecSession == InitSession /\ [][NextSession]_vars

----------------------------------------------------------------------------
(* Main process: capture-playwright-screenshot and its replay loop *)

MaxReplayLen == 2
MaxCaptures == 1

\* The entries the recorder stores for the device name d: click and input
\* payloads with type, deviceName, timestamp and viewport
\* (storeDeviceSpecificAction).
RecordedEntries(d) ==
  {[type |-> "click", data |-> ClickData(e), deviceName |-> d, sinceTimestamp |-> 0,
    viewport |-> Devices[d]] : e \in ClickTargets}
    \cup
  {[type |-> "input", data |-> InputData(e, v), deviceName |-> d, sinceTimestamp |-> 0,
    viewport |-> Devices[d]] : e \in InputTargets, v \in Values}

\* options.recordedActions: deviceSpecificActions[webview.deviceName] || []
ReplayLogs ==
  UNION {[1..n -> RecordedEntries(DeviceOrder[1])] : n \in 0..MaxReplayLen}

\* action.<f> of a recorded entry { ...data, type, ... }: "undefined" when the
\* payload has no such field.
Field(action, f) == IF f \in DOMAIN action.data THEN action.data[f] ELSE "undefined"

HasField(action, f) == f \in DOMAIN action.data

\* if (v), for a string or undefined
Truthy(v) == v \notin {"undefined", ""}

\* What the probe of action.selector can find in the page: no element, an
\* element of zero width or height, a visible element whose text differs
\* from action.text, a visible element that passes the text test.
ProbeResults(action) ==
  {"missing", "hidden", "match"}
    \cup (IF Truthy(Field(action, "text")) THEN {"mismatch"} ELSE {})

\* What a step of the replay of action can observe.
Sights(action, op) ==
  CASE op = "probe" -> ProbeResults(action)
    [] op = "textSearch" -> {"found", "notFound"}
    [] OTHER -> {""}

\* The first awaited call of the replay of action; "wait": nothing to do but
\* the waits that end every iteration.
FirstOp(action) ==
  CASE action.type = "click" ->
         IF Truthy(Field(action, "selector")) THEN "probe"
         ELSE IF HasField(action, "coordinates") THEN "mouseAtCoordinates"
         ELSE "wait"
    [] action.type = "input" ->
         IF Truthy(Field(action, "selector")) /\ Truthy(Field(action, "value"))
         THEN "fill" ELSE "wait"
    [] OTHER -> "wait"

\* The awaited call that follows op in the body of the replay loop, op having
\* returned (ok, and seen saw) or thrown; "end": the iteration is over,
\* "throw": the exception leaves the body for the catch of the iteration.
NextOp(action, op, ok, saw) ==
  CASE op = "probe" ->
         IF ~ok THEN "throw"
         ELSE CASE saw = "match" -> "clickSelector"
                [] saw = "mismatch" -> "textSearch"
                [] saw = "hidden" -> "wait"
                [] OTHER ->
                     IF HasField(action, "coordinates") THEN "mouseAtCoordinates"
                     ELSE "wait"
    [] op = "clickSelector" -> IF ok THEN "wait" ELSE "mouseAtCenter"
    [] op = "mouseAtCenter" -> "wait"
    [] op = "textSearch" ->
         IF ~ok THEN "clickSelectorAfterError"
         ELSE IF saw = "found" THEN "focus" ELSE "clickSelectorNoText"
    [] op = "clickSelectorNoText" -> IF ok THEN "wait" ELSE "clickSelectorAfterError"
    [] op = "clickSelectorAfterError" -> "wait"
    [] op = "focus" -> IF ok THEN "mark" ELSE "afterCheck"
    [] op = "mark" -> IF ok THEN "clickMarked" ELSE "mouseAtText"
    [] op = "clickMarked" -> IF ok THEN "unmark" ELSE "mouseAtText"
    [] op = "unmark" -> IF ok THEN "afterCheck" ELSE "mouseAtText"
    [] op = "mouseAtText" -> IF ok THEN "dispatchEvents" ELSE "afterCheck"
    [] op = "dispatchEvents" -> "afterCheck"
    [] op = "afterCheck" -> IF ok THEN "wait" ELSE "clickSelectorAfterError"
    [] op = "mouseAtCoordinates" -> IF ok THEN "wait" ELSE "throw"
    [] op = "fill" -> "wait"
    [] OTHER -> IF ok THEN "end" ELSE "throw"

\* The loop goes to the next action, or leaves the loop after the last one.
\* last: the calls made for the action that ends (history).
NextAction(c, steps) ==
  LET j == c.i + 1
      more == j <= Len(c.recordedActions)
  IN  [c EXCEPT !.i = j,
                !.pc = IF more THEN "replaying" ELSE "settling",
                !.op = IF more THEN FirstOp(c.recordedActions[j]) ELSE "",
                !.attempted = IF more THEN Append(@, j) ELSE @,
                !.trace = <<>>,
                !.last = [i |-> c.i, steps |-> steps]]

\* A variant without the catch of the iteration: the exception reaches the
\* catch of the handler.
ThrownToHandler(c, steps) == [c EXCEPT !.pc = "catch", !.op = "", !.trace = steps]

\* catch (error) { console.warn(...) } of the iteration: the loop goes on.
CaughtByIteration(c, steps) == [NextAction(c, steps) EXCEPT !.threw = @ \cup {c.i}]

\* The renderer invokes capture-playwright-screenshot: chromium.launch is
\* awaited.
CaptureInvoke(actions) ==
  /\ capture.pc \in {"idle", "returned", "thrown"}
  /\ capture.calls < MaxCaptures
  /\ capture' = [NoCapture EXCEPT !.pc = "launching", !.recordedActions = actions,
                                  !.calls = capture.calls + 1]
  /\ UNCHANGED <<hostVars, webviews, docVars, shellVars, replay, manual, pages, execQueue, msgs,
                 historyVars, budget>>

\* chromium.launch returns the browser or throws (browser is still null in
\* the catch of the handler, which rethrows).
CaptureLaunch(ok) ==
  /\ capture.pc = "launching"
  /\ capture' = IF ok THEN [capture EXCEPT !.pc = "loading", !.browser = "open"]
                ELSE [capture EXCEPT !.pc = "thrown"]
  /\ UNCHANGED <<hostVars, webviews, docVars, shellVars, replay, manual, pages, execQueue, msgs,
                 historyVars, budget>>

\* newContext, newPage, addInitScript, goto and the waits for the framework
\* return, or one of them throws (navigation timeout, wait timeout).
CaptureLoad(ok) ==
  /\ capture.pc = "loading"
  /\ capture' =
       IF ~ok THEN [capture EXCEPT !.pc = "catch"]
       ELSE IF capture.recordedActions = <<>> THEN [capture EXCEPT !.pc = "screenshot"]
       ELSE [capture EXCEPT !.pc = "replaying", !.i = 1, !.attempted = <<1>>,
                            !.op = FirstOp(capture.recordedActions[1])]
  /\ UNCHANGED <<hostVars, webviews, docVars, shellVars, replay, manual, pages, execQueue, msgs,
                 historyVars, budget>>

\* One awaited call of the replay of action i returns or throws.  The
\* evaluate of "mark" sets the marker attribute on the element the text
\* search found, that of "unmark" removes it.
ReplayStep(ok, saw) ==
  /\ capture.pc = "replaying"
  /\ LET action == capture.recordedActions[capture.i]
         op == capture.op
         steps == Append(capture.trace, [op |-> op, ok |-> ok, saw |-> saw])
         nxt == NextOp(action, op, ok, saw)
         c == [capture EXCEPT !.marked = CASE ok /\ op = "mark" -> TRUE
                                           [] ok /\ op = "unmark" -> FALSE
                                           [] OTHER -> @]
     IN  /\ saw \in (IF ok THEN Sights(action, op) ELSE {""})
         /\ capture' =
              CASE nxt = "throw" -> CaughtByIteration(c, steps)
                [] nxt = "end" -> NextAction(c, steps)
                [] OTHER -> [c EXCEPT !.op = nxt, !.trace = steps]
  /\ UNCHANGED <<hostVars, webviews, docVars, shellVars, replay, manual, pages, execQueue, msgs,
                 historyVars, budget>>

\* page.waitForTimeout(3000) after the loop.
CaptureSettle(ok) ==
  /\ capture.pc = "settling"
  /\ capture' = [capture EXCEPT !.pc = IF ok THEN "screenshot" ELSE "catch"]
  /\ UNCHANGED <<hostVars, webviews, docVars, shellVars, replay, manual, pages, execQueue, msgs,
                 historyVars, budget>>

\* page.screenshot
CaptureScreenshot(ok) ==
  /\ capture.pc = "screenshot"
  /\ capture' = [capture EXCEPT !.pc = IF ok THEN "closing" ELSE "catch"]
  /\ UNCHANGED <<hostVars, webviews, docVars, shellVars, replay, manual, pages, execQueue, msgs,
                 historyVars, budget>>

\* await browser.close() after the screenshot: the browser closes and the
\* handler returns the buffer, or close throws, which leaves the browser as
\* it is and enters the catch of the handler.
CaptureClose(ok) ==
  /\ capture.pc = "closing"
  /\ capture' = IF ok THEN [capture EXCEPT !.pc = "returned", !.browser = "closed"]
                ELSE [capture EXCEPT !.pc = "catch"]
  /\ UNCHANGED <<hostVars, webviews, docVars, shellVars, replay, manual, pages, execQueue, msgs,
                 historyVars, budget>>

\* The catch of the handler: if (browser) await browser.close(); throw error.
\* A close that throws replaces the error and leaves the browser as it is.
CaptureCatch(ok) ==
  /\ capture.pc = "catch"
  /\ capture' = [capture EXCEPT !.pc = "thrown",
                                !.browser = IF ok THEN "closed" ELSE @]
  /\ UNCHANGED <<hostVars, webviews, docVars, shellVars, replay, manual, pages, execQueue, msgs,
                 historyVars, budget>>

NextCapture ==
  \/ \E actions \in ReplayLogs : CaptureInvoke(actions)
  \/ \E ok \in BOOLEAN : CaptureLaunch(ok)
  \/ \E ok \in BOOLEAN : CaptureLoad(ok)
  \/ \E ok \in BOOLEAN, saw \in {"", "missing", "hidden", "match", "mismatch",
                                 "found", "notFound"} : ReplayStep(ok, saw)
  \/ \E ok \in BOOLEAN : CaptureSettle(ok)
  \/ \E ok \in BOOLEAN : CaptureScreenshot(ok)
  \/ \E ok \in BOOLEAN : CaptureClose(ok)
  \/ \E ok \in BOOLEAN : CaptureCatch(ok)

SpecCapture == InitChannels /\ [][NextCapture]_vars

\* Every awaited call of the replay loop returns or throws in the end.
SpecCaptureFair ==
  SpecCapture /\ WF_vars(\E ok \in BOOLEAN, saw \in {"", "missing", "hidden", "match",
                                                     "mismatch", "found", "notFound"} :
                           ReplayStep(ok, saw))

----------------------------------------------------------------------------
(* Main process: the manual browsers *)

MaxOpens == 3

\* window.openManualMode up to the first await of open-manual-browsers.  The
\* Manual Mode button shows in the default mode only (setUIMode) and answers
\* no click while it is disabled; manualBtn.disabled = true.  In main:
\* const browsers = [].
OpenManualBrowsers ==
  /\ manual.pc \in {"idle", "returned"}
  /\ uiMode = "default"
  /\ ~manual.btnDisabled
  /\ ~manual.active
  /\ manual.calls < MaxOpens
  /\ manual' = [manual EXCEPT !.pc = "launching", !.k = 1, !.current = 0,
                              !.browsers = <<>>, !.launched = {}, !.result = "none",
                              !.btnDisabled = TRUE, !.calls = @ + 1]
  /\ UNCHANGED <<hostVars, webviews, docVars, shellVars, replay, capture, pages, execQueue, msgs,
                 historyVars, budget>>

\* const browser = await chromium.launch(...) for device k returns a new
\* browser or throws, which the catch of the handler answers with
\* { success: false }; the catch of openManualMode enables the button again.
ManualLaunch(ok) ==
  /\ manual.pc = "launching"
  /\ LET b == (manual.calls - 1) * NumPanes + manual.k
     IN  manual' =
           IF ok THEN [manual EXCEPT !.pc = "loading", !.current = b,
                                     !.launched = @ \cup {b}, !.open = @ \cup {b}]
           ELSE [manual EXCEPT !.pc = "returned", !.result = "failure",
                               !.btnDisabled = FALSE, !.op = "open"]
  /\ UNCHANGED <<hostVars, webviews, docVars, shellVars, replay, capture, pages, execQueue, msgs,
                 historyVars, budget>>

\* newContext, newPage, addInitScript, goto, addStyleTag and the wait for
\* device k return, then browsers.push; after the last device
\* manualBrowsers = browsers and { success: true }, on which openManualMode
\* sets manualModeActive and setUIMode('manual') and leaves the button as it
\* is.  Or one of the calls throws (state injection, navigation timeout):
\* { success: false } and the catch of openManualMode.
ManualLoad(ok) ==
  /\ manual.pc = "loading"
  /\ manual' =
       IF ~ok THEN [manual EXCEPT !.pc = "returned", !.result = "failure",
                                  !.btnDisabled = FALSE, !.op = "open"]
       ELSE IF manual.k < NumPanes
       THEN [manual EXCEPT !.pc = "launching", !.k = @ + 1,
                           !.browsers = Append(@, manual.current)]
       ELSE [manual EXCEPT !.pc = "returned", !.result = "success", !.active = TRUE,
                           !.browsers = Append(@, manual.current),
                           !.manualBrowsers = Append(manual.browsers, manual.current),
                           !.op = "open"]
  /\ uiMode' = IF ok /\ manual.k = NumPanes THEN "manual" ELSE uiMode
  /\ UNCHANGED <<syncSettings, hideScrollbars, isRecording, deviceSpecificActions, webviews,
                 docVars, shellVars, replay, capture, pages, execQueue, msgs, historyVars,
                 budget>>

\* window.cancelMode in the manual mode (the cancel button shows there):
\* closeManualMode invokes close-manual-browsers, where every browser of
\* manualBrowsers is closed, or killed when close throws; left: the browsers
\* for which the kill failed too or found no process.  manualBrowsers = [],
\* manualModeActive = false, deviceSpecificActions = {}, setUIMode('default').
CloseManualBrowsers(left) ==
  /\ manual.pc \in {"idle", "returned"}
  /\ uiMode = "manual"
  /\ manual.active
  /\ LET tracked == {manual.manualBrowsers[j] : j \in DOMAIN manual.manualBrowsers}
     IN  /\ left \subseteq tracked
         /\ manual' = [manual EXCEPT !.open = @ \ (tracked \ left),
                                     !.manualBrowsers = <<>>, !.active = FALSE,
                                     !.held = tracked, !.closeTried = tracked,
                                     !.op = "cancel", !.ended = TRUE]
  /\ isRecording' = FALSE
  /\ deviceSpecificActions' = CancelledLogs(deviceSpecificActions)
  /\ uiMode' = "default"
  /\ UNCHANGED <<syncSettings, hideScrollbars, webviews, docVars, shellVars, replay, capture,
                 pages, execQueue, msgs, historyVars, budget>>

\* window.triggerRemoteScreenshot (its button shows in the manual mode) with
\* capture-manual-screenshots.  The screenshots are taken and written (ok):
\* every browser of manualBrowsers is closed, but for those whose close
\* throws (left), manualBrowsers = [] and { success: true }, on which the
\* renderer clears manualModeActive and setUIMode('default').  Or a
\* screenshot or a write throws: the catch closes the browsers in order until
\* a close throws, which leaves that browser and the ones after it (left)
\* open and in manualBrowsers; { success: false }, on which the renderer
\* alerts and changes nothing.
CaptureManualScreenshots(ok, left) ==
  /\ manual.pc \in {"idle", "returned"}
  /\ uiMode = "manual"
  /\ manual.active
  /\ LET n == Len(manual.manualBrowsers)
         tracked == {manual.manualBrowsers[j] : j \in 1..n}
         Suffix(j) == {manual.manualBrowsers[i] : i \in j..n}
     IN  /\ IF ok THEN left \subseteq tracked
            ELSE \E j \in 1..(n + 1) : left = Suffix(j)
         /\ manual' =
              [manual EXCEPT !.open = @ \ (tracked \ left),
                             !.manualBrowsers = IF ok \/ left = {} THEN <<>> ELSE @,
                             !.active = ~ok,
                             !.held = tracked,
                             !.closeTried =
                               IF ok \/ left = {} THEN tracked
                               ELSE tracked \ Suffix(1 + CHOOSE j \in 1..n : left = Suffix(j)),
                             !.op = IF ok THEN "captured" ELSE "captureFailed",
                             !.ended = @ \/ ok]
  /\ uiMode' = IF ok THEN "default" ELSE uiMode
  /\ UNCHANGED <<syncSettings, hideScrollbars, isRecording, deviceSpecificActions, webviews,
                 docVars, shellVars, replay, capture, pages, execQueue, msgs, historyVars,
                 budget>>

NextManual ==
  \/ OpenManualBrowsers
  \/ \E ok \in BOOLEAN : ManualLaunch(ok)
  \/ \E ok \in BOOLEAN : ManualLoad(ok)
  \/ \E left \in SUBSET (1..(MaxOpens * NumPanes)) : CloseManualBrowsers(left)
  \/ \E ok \in BOOLEAN, left \in SUBSET (1..(MaxOpens * NumPanes)) :
       CaptureManualScreenshots(ok, left)

SpecManual == InitChannels /\ [][NextManual]_vars

----------------------------------------------------------------------------
(* The host window: presets and the capture cycle *)

MaxStack == 3
MaxLoads == 2
MaxShots == 2

\* loadPresetInternal(presetName) with depth frames of it on the stack.  webviews
\* and the container are emptied first; a name that the mapping does not have
\* calls loadPresetInternal("responsive"), whatever the mapping holds, and with
\* no such key the calls (and their alerts) go on until the stack is exhausted
\* and a RangeError unwinds them (overflow).  createViewport pushes a webview
\* for a device of the table only, deviceCount shows deviceList.length.
RECURSIVE loadPresetInternal(_, _, _)
loadPresetInternal(sh, presetName, depth) ==
  IF depth > MaxStack
  THEN [webviews |-> <<>>, shell |-> [sh EXCEPT !.overflow = TRUE]]
  ELSE IF presetName \notin DOMAIN sh.presets
       THEN loadPresetInternal(sh, "responsive", depth + 1)
       ELSE LET deviceList == sh.presets[presetName]
                pushed == SelectSeq(deviceList, LAMBDA d : d \in DOMAIN Devices)
            IN  [webviews |-> [i \in 1..Len(pushed) |->
                                 createViewport(pushed[i]) @@ [loadedBy |-> sh.loads]],
                 shell |-> [sh EXCEPT !.deviceCount = Len(deviceList)]]

\* A call of loadPresetInternal from outside: the DOMContentLoaded handler
\* (the first call, with "responsive") and window.loadPreset.  The button of
\* the preset becomes the active one at the end of a call that returns.
loadPreset(presetName) ==
  /\ shell.loads < MaxLoads
  /\ shell.loads = 0 => presetName = "responsive"
  /\ LET r == loadPresetInternal([shell EXCEPT !.loads = @ + 1, !.overflow = FALSE],
                                 presetName, 0)
     IN  /\ webviews' = r.webviews
         /\ shell' = IF r.shell.overflow THEN r.shell
                     ELSE [r.shell EXCEPT !.active = presetName]
  /\ UNCHANGED <<hostVars, docVars, captureVars, cycle, pages, execQueue, msgs,
                 historyVars, budget>>

\* The resize listener of setupResizeHandler: nothing while isScreenshotting;
\* else clearTimeout(resizeTimer) and a new timer of 250ms.
Resize ==
  /\ ~cycle.isScreenshotting
  /\ shell' = [shell EXCEPT !.resizeTimer = TRUE]
  /\ UNCHANGED <<hostVars, webviews, docVars, captureVars, cycle, pages, execQueue, msgs,
                 historyVars, budget>>

\* The timer of the resize listener fires, 250ms after the last resize event
\* that armed it: loadPresetInternal(presetName, activeButton) for the preset
\* button that is active, if there is one.
ResizeTimerFire ==
  /\ shell.resizeTimer
  /\ shell.active # "none" => shell.loads < MaxLoads
  /\ IF shell.active = "none"
     THEN /\ shell' = [shell EXCEPT !.resizeTimer = FALSE]
          /\ UNCHANGED webviews
     ELSE LET r == loadPresetInternal([shell EXCEPT !.loads = @ + 1, !.overflow = FALSE,
                                                   !.resizeTimer = FALSE],
                                     shell.active, 0)
          IN  /\ webviews' = r.webviews
              /\ shell' = [r.shell EXCEPT !.rebuiltWhileScreenshotting =
                                            @ \/ cycle.isScreenshotting]
  /\ UNCHANGED <<hostVars, docVars, captureVars, cycle, pages, execQueue, msgs,
                 historyVars, budget>>

\* screenshotAll (replaying = FALSE) and window.screenshotAllWithReplay
\* (replaying = TRUE) up to the first await of the loop.  The button of the
\* first shows in the default mode, that of the second in the replay mode;
\* either is disabled while its cycle runs.  dirOk: existsSync and mkdirSync
\* did not throw; when they throw the outer catch alerts and the finally
\* block resets the flag.
screenshotAll(replaying, dirOk) ==
  /\ cycle.pc = "idle"
  /\ cycle.cycles < MaxShots
  /\ uiMode = (IF replaying THEN "replay" ELSE "default")
  /\ replaying => TotalActions(deviceSpecificActions) > 0
  /\ Len(webviews) > 0
  /\ cycle' = IF dirOk
              THEN [cycle EXCEPT !.pc = "capturing", !.replaying = replaying, !.i = 1,
                                 !.totalCount = Len(webviews), !.successCount = 0,
                                 !.isScreenshotting = TRUE, !.saved = {}, !.failed = {},
                                 !.written = <<>>, !.deviceName = webviews[1].deviceName,
                                 !.cycles = @ + 1]
              ELSE [cycle EXCEPT !.cycles = @ + 1]
  /\ UNCHANGED <<hostVars, webviews, docVars, captureVars, shell, pages, execQueue, msgs,
                 historyVars, budget>>

\* The file a cycle writes for a pane of the device deviceName: the name from
\* the prefix ("screenshot_", "screenshot_replay_"), the timestamp taken once
\* at the start of the cycle (here: the number of the cycle), the device name
\* with every character outside a-z, A-Z, 0-9 replaced by "_", and the
\* dpiSuffix "_<n>x" for deviceInfo.deviceScaleFactor > 1 (the factor is 1
\* when the device table gives none; here it gives the phone 3).
ScreenshotFile(replaying, timestamp, deviceName) ==
  LET sanitized == CASE deviceName = "iPhone 14 Pro" -> "iPhone_14_Pro"
                     [] deviceName = "iPad Air" -> "iPad_Air"
                     [] deviceName = "MacBook Air" -> "MacBook_Air"
                     [] OTHER -> "device"
      deviceScaleFactor == IF deviceName = "iPhone 14 Pro" THEN 3 ELSE 1
      dpiSuffix == IF deviceScaleFactor > 1 THEN "_" \o ToString(deviceScaleFactor) \o "x"
                   ELSE ""
      prefix == IF replaying THEN "screenshot_replay_" ELSE "screenshot_"
  IN  [filename |-> prefix \o ToString(timestamp) \o "_" \o sanitized \o dpiSuffix \o ".png",
       deviceScaleFactor |-> deviceScaleFactor, dpiSuffix |-> dpiSuffix]

\* A variant in which a failed capture or write leaves the loop.
FailureEndsCycle(captured, written) ==
  /\ cycle.pc = "capturing"
  /\ LET ok == captured /\ written
         c == [cycle EXCEPT !.successCount = IF ok THEN @ + 1 ELSE @,
                            !.saved = IF ok THEN @ \cup {cycle.i} ELSE @,
                            !.written =
                              IF ok
                              THEN Append(@, ScreenshotFile(cycle.replaying, cycle.cycles,
                                                            cycle.deviceName))
                              ELSE @,
                            !.failed = IF ok THEN @ ELSE @ \cup {cycle.i},
                            !.i = @ + 1]
     IN  IF ok /\ c.i <= Len(webviews)
         THEN /\ cycle' = [c EXCEPT !.deviceName = webviews[c.i].deviceName]
              /\ UNCHANGED <<uiMode, deviceSpecificActions>>
         ELSE /\ cycle' = [c EXCEPT !.pc = "idle", !.isScreenshotting = FALSE,
                                    !.report = [successCount |-> c.successCount,
                                                totalCount |-> c.totalCount]]
              /\ uiMode' = "default"
              /\ deviceSpecificActions' =
                   IF cycle.replaying THEN [d \in DeviceNames |-> <<>>]
                   ELSE deviceSpecificActions
  /\ UNCHANGED <<syncSettings, hideScrollbars, isRecording, webviews, docVars, captureVars,
                 shell, pages, execQueue, msgs, historyVars, budget>>

\* The invocation of capture-playwright-screenshot for webviews[i] returns
\* the buffer (captured) or rejects; writeFileSync writes it (written) or
\* throws; the catch of the loop body logs either failure.  Then i++ and the
\* test i < webviews.length on the pane set of that moment.  After the loop:
\* the alert with the counts, setUIMode('default'), the replay cycle empties
\* deviceSpecificActions, and the finally block resets the flag.
DeviceCaptured(captured, written) ==
  /\ cycle.pc = "capturing"
  /\ LET ok == captured /\ written
         c == [cycle EXCEPT !.successCount = IF ok THEN @ + 1 ELSE @,
                            !.saved = IF ok THEN @ \cup {cycle.i} ELSE @,
                            !.written =
                              IF ok
                              THEN Append(@, ScreenshotFile(cycle.replaying, cycle.cycles,
                                                            cycle.deviceName))
                              ELSE @,
                            !.failed = IF ok THEN @ ELSE @ \cup {cycle.i},
                            !.i = @ + 1]
     IN  IF c.i <= Len(webviews)
         THEN /\ cycle' = [c EXCEPT !.deviceName = webviews[c.i].deviceName]
              /\ UNCHANGED <<uiMode, deviceSpecificActions>>
         ELSE /\ cycle' = [c EXCEPT !.pc = "idle", !.isScreenshotting = FALSE,
                                    !.report = [successCount |-> c.successCount,
                                                totalCount |-> c.totalCount]]
              /\ uiMode' = "default"
              /\ deviceSpecificActions' =
                   IF cycle.replaying THEN [d \in DeviceNames |-> <<>>]
                   ELSE deviceSpecificActions
  /\ UNCHANGED <<syncSettings, hideScrollbars, isRecording, webviews, docVars, captureVars,
                 shell, pages, execQueue, msgs, historyVars, budget>>

\* The window when the DOMContentLoaded handler is about to load the default
\* preset: no pane yet.  The user is in the default mode, or recorded a
\* click and stopped the recording (replay mode).
InitShell ==
  \E m \in PresetMappings, recorded \in BOOLEAN :
    /\ shell = [NoShell EXCEPT !.presets = m]
    /\ cycle = NoCycle
    /\ webviews = <<>>
    /\ uiMode = (IF recorded THEN "replay" ELSE "default")
    /\ deviceSpecificActions =
         [d \in DeviceNames |->
            IF recorded /\ d = DeviceOrder[1]
            THEN <<[type |-> "click", data |-> ClickData("submit"), deviceName |-> d,
                    sinceTimestamp |-> 0, viewport |-> Devices[d]]>>
            ELSE <<>>]
    /\ hideScrollbars = TRUE
    /\ syncSettings = updateScrollSyncState(DefaultSyncSettings, TRUE)
    /\ isRecording = FALSE
    /\ layouts = [p \in Panes |-> DefaultDoc]
    /\ probe = NoProbe
    /\ pages = [p \in Panes |-> FreshPage]
    /\ execQueue = [p \in Panes |-> <<>>]
    /\ msgs = [p \in Panes |-> <<>>]
    /\ userActions = <<>>
    /\ dispatched = [a \in 1..MaxUserActions |-> 0]
    /\ dropped = {}
    /\ session = NoSession
    /\ budget = NoBudgetUsed
    /\ replay = NoReplay
    /\ capture = NoCapture
    /\ manual = NoManual

NextShell ==
  \/ \E presetName \in {"responsive", "mobile", "tablet"} : loadPreset(presetName)
  \/ \E replaying, dirOk \in BOOLEAN : screenshotAll(replaying, dirOk)
  \/ \E captured, written \in BOOLEAN : DeviceCaptured(captured, written)
  \/ Resize
  \/ ResizeTimerFire

SpecShell == InitShell /\ [][NextShell]_vars

----------------------------------------------------------------------------
(* The URL history *)

HistoryLimit == 20
MaxSaves == 23
MaxResaves == 2

\* JSON.stringify of an array of strings (URLs hold no character that JSON
\* escapes)
Stringify(list) ==
  "[" \o JoinWith([i \in DOMAIN list |-> "\"" \o list[i] \o "\""], ",") \o "]"

\* A variant that does not remove the earlier entry of the URL.
SaveWithoutFilter(url) ==
  /\ shell.saves < MaxSaves
  /\ LET unshifted == <<url>> \o shell.urlHistory
         sliced == SubSeq(unshifted, 1, Min(Len(unshifted), HistoryLimit))
     IN  shell' = [shell EXCEPT !.urlHistory = sliced, !.localStorage = Stringify(sliced),
                                !.saves = @ + 1, !.savedAt = Append(@, url)]
  /\ UNCHANGED <<hostVars, webviews, docVars, captureVars, cycle, pages, execQueue, msgs,
                 historyVars, budget>>

\* saveToHistory(url), as loadURL calls it: filter, unshift, slice(0, 20),
\* localStorage.setItem.
saveToHistory(url) ==
  /\ shell.saves < MaxSaves
  /\ LET filtered == SelectSeq(shell.urlHistory, LAMBDA item : item # url)
         unshifted == <<url>> \o filtered
         sliced == SubSeq(unshifted, 1, Min(Len(unshifted), HistoryLimit))
     IN  shell' = [shell EXCEPT !.urlHistory = sliced, !.localStorage = Stringify(sliced),
                                !.saves = @ + 1, !.savedAt = Append(@, url)]
  /\ UNCHANGED <<hostVars, webviews, docVars, captureVars, cycle, pages, execQueue, msgs,
                 historyVars, budget>>

\* The user loads one URL after another: a URL that was not loaded before,
\* or, MaxResaves times, one that was.
SpecHistory ==
  InitChannels
    /\ [][\E n \in 1..MaxSaves :
            LET url == CurrentURL \o ToString(n)
                Urls == {shell.savedAt[k] : k \in DOMAIN shell.savedAt}
                fresh == Cardinality(Urls)
            IN  /\ n <= fresh + 1
                /\ n <= fresh => shell.saves - fresh < MaxResaves
                /\ saveToHistory(url)]_vars

----------------------------------------------------------------------------
(* Navigation sync, with the did-navigate events in flight *)

MaxPaneNavigations == 2

\* A navigation of pane p to url commits in the guest: the load that
\* webview.loadURL(url) started, or a navigation the page starts by itself (a
\* link, a script) while no load is pending.  The webview shows url from now
\* on (getURL) and its did-navigate event is on the way to the host.
DidNavigate(p, url) ==
  /\ \/ webviews[p].loading = url
     \/ /\ webviews[p].loading = NoURL
        /\ webviews[p].url # url
        /\ budget.navigations < MaxPaneNavigations
  /\ Len(webviews[p].navigated) < MaxQueue
  /\ budget' = IF webviews[p].loading = url THEN budget
               ELSE [budget EXCEPT !.navigations = @ + 1]
  /\ webviews' = [webviews EXCEPT ![p].url = url, ![p].loading = NoURL,
                                  ![p].navigated = Append(@, url)]
  /\ pages' = [pages EXCEPT ![p] = FreshPage]
  /\ execQueue' = [execQueue EXCEPT ![p] = <<>>]
  /\ UNCHANGED <<hostVars, docVars, captureVars, shellVars, msgs, historyVars>>

\* The did-navigate listener of pane p runs in the host for the oldest event:
\* if (syncSettings.navigation) syncNavigation(webview, e.url).
OnDidNavigate(p) ==
  /\ webviews[p].navigated # <<>>
  /\ LET url == Head(webviews[p].navigated)
         handled == [webviews EXCEPT ![p].navigated = Tail(@)]
     IN  webviews' = IF syncSettings.navigation THEN syncNavigation(handled, p, url)
                     ELSE handled
  /\ UNCHANGED <<hostVars, docVars, captureVars, shellVars, pages, execQueue, msgs, historyVars,
                 budget>>

\* The app started with its default settings (scrollbars hidden, so that no
\* sync script is installed) and every pane has loaded currentURL.  The pages
\* navigate among three URLs of the site.  A pending load commits and an
\* event in flight reaches the host.
SpecNavigate ==
  /\ InitWith(updateScrollSyncState(DefaultSyncSettings, TRUE), TRUE,
              [p \in Panes |-> [createViewport(DistinctPreset[p])
                                  EXCEPT !.url = CurrentURL, !.loading = NoURL]],
              [p \in Panes |-> FreshPage], [p \in Panes |-> DefaultDoc], NoProbe)
  /\ [][\/ \E p \in Panes, url \in {CurrentURL, CurrentURL \o "a", CurrentURL \o "b"} :
             DidNavigate(p, url)
        \/ \E p \in Panes : OnDidNavigate(p)]_vars
  /\ \A p \in Panes :
       /\ WF_vars(OnDidNavigate(p))
       /\ WF_vars(webviews[p].loading # NoURL /\ DidNavigate(p, webviews[p].loading))

----------------------------------------------------------------------------
(* Properties *)

\* C1: no sync echo.  For one user click the Sync Dispatcher
\* (syncToOtherWebviews) is invoked at most once, whatever sync settings were
\* toggled before: no target re-emits the click and the host handles the
\* SYNC:CLICK message once.
C1_DispatchedAtMostOnce ==
  \A a \in DOMAIN userActions :
    userActions[a].kind = "click" => dispatched[a] <= 1

\* C2: when the dispatcher handles a SyncEvent of source pane p, the apply
\* script is issued to exactly the panes that are not p and whose context is
\* live (a resolved URL that is not blank): never to p, never to a pane that
\* is not live.
C2_AppliedToLivePanesOnly ==
  [][\A p \in Panes :
       (msgs[p] # <<>> /\ msgs'[p] = Tail(msgs[p]) /\ dispatched' # dispatched)
         => \A q \in Panes :
              (Len(execQueue'[q]) > Len(execQueue[q]))
                <=> (q # p /\ webviews[q].url # "" /\ webviews[q].url # BlankURL)]_vars

\* C3: a SyncEvent of channel T is forwarded to other panes only if
\* syncSettings[T] is enabled when the host handles it, and a step that
\* changes the setting of one channel changes no other setting.
C3_ForwardedOnlyIfEnabled ==
  [][/\ \A p \in Panes :
          (msgs[p] # <<>> /\ msgs'[p] = Tail(msgs[p]) /\ execQueue' # execQueue)
            => syncSettings[Head(msgs[p]).type]
     /\ \A c, d \in DOMAIN syncSettings :
          (syncSettings'[c] # syncSettings[c] /\ syncSettings'[d] # syncSettings[d])
            => c = d]_vars

\* C3, reached: the host did not forward the message of one user action, its
\* channel being off, and forwarded the message of a later user action of
\* another channel.
C3_Witness ==
  \E a, b \in DOMAIN userActions :
    /\ a < b
    /\ userActions[a].kind # userActions[b].kind
    /\ a \in dropped
    /\ dispatched[a] = 0
    /\ dispatched[b] > 0
    /\ ~syncSettings[userActions[a].kind]

\* C4: every pane that reached dom-ready, once the set-up it armed has run,
\* observes every enabled channel: the sync script with the observer of the
\* channel is in the page and the host listens to its messages.
C4_ObserversInstalled ==
  \A p \in Panes :
    (/\ webviews[p].url = CurrentURL
     /\ webviews[p].loading = NoURL
     /\ webviews[p].setupTimers = <<>>
     /\ execQueue[p] = <<>>)
      => \A c \in EnabledChannels(syncSettings) :
           Observes(pages[p], c) /\ webviews[p].listeners >= 1

\* C5: a target pane applying a scroll SyncEvent scrolls to the pixel nearest
\* to percentX, percentY of its own range (scrollWidth - innerWidth,
\* scrollHeight - innerHeight), as far as the document scrolls.
C5_PercentOfOwnRange ==
  [][LET Nearest(v, n, d, max) ==
           /\ v \in 0..max
           /\ v > 0 => 2 * d * v - d <= 2 * n
           /\ v < max => 2 * n < 2 * d * v + d
     IN  \A q \in Panes :
           (/\ pages[q].rafs # <<>>
            /\ pages'[q].rafs = Tail(pages[q].rafs)
            /\ Head(pages[q].rafs).type = "scroll")
             => LET data == Head(pages[q].rafs).data
                    doc == layouts[q]
                IN  /\ Nearest(pages'[q].scroll.x,
                               data.percentX.n * (doc.scrollWidth - doc.innerWidth),
                               data.percentX.d, doc.scrollWidth - doc.clientWidth)
                    /\ Nearest(pages'[q].scroll.y,
                               data.percentY.n * (doc.scrollHeight - doc.innerHeight),
                               data.percentY.d, doc.scrollHeight - doc.clientHeight)]_vars

\* C5, reached: the user scrolled one pane, the other pane followed and rests
\* at another pixel offset than the source: its own share of its own range.
C5_Witness ==
  \E p, q \in Panes :
    /\ p # q
    /\ Len(userActions) = 1
    /\ userActions[1] = [kind |-> "scroll", pane |-> p]
    /\ dispatched[1] = 1
    /\ Quiescent
    /\ pages[p].scroll.y > 0
    /\ pages[q].scroll.y > 0
    /\ pages[q].scroll.y # pages[p].scroll.y
    /\ MaxScrollY(layouts[q]) # MaxScrollY(layouts[p])

\* C6: percent round trip.  A scroll position of a document, converted to
\* {percentX, percentY} by the scroll observer and applied back on the same
\* document, comes back within 1px.
C6_RoundTripWithinOnePixel ==
  probe.state = "applied"
    => /\ probe.to.x - probe.from.x \in -1..1
       /\ probe.to.y - probe.from.y \in -1..1

\* C7: after the user stopped scrolling pane a and everything in flight has
\* arrived, every other pane rests at the scroll percentage of a's final
\* position.
C7_OthersRestAtFinalPosition ==
  \A a \in Panes :
    (/\ userActions # <<>>
     /\ \A i \in DOMAIN userActions : userActions[i] = [kind |-> "scroll", pane |-> a]
     /\ Quiescent)
      => \A q \in Panes \ {a} :
           pages[q].scroll =
             ApplyScroll(layouts[q],
                         ScrollData(layouts[a], pages[a].scroll.x, pages[a].scroll.y))

\* C8: a step of startRecording leaves isRecording true and the log of every
\* device name empty, whatever the logs held before.
C8_StartRecordingClearsLogs ==
  [][budget'.recordings # budget.recordings
       => /\ isRecording'
          /\ \A d \in DeviceNames : deviceSpecificActions'[d] = <<>>]_vars

\* C8, reached: startRecording ran while the logs held entries.
C8_Witness ==
  /\ session.state = "recording"
  /\ session.discarded > 0
  /\ session.clicks = <<>>
  /\ isRecording
  /\ \A d \in DeviceNames : deviceSpecificActions[d] = <<>>

\* C9: recorder dedup.  No device log holds two entries of the same type
\* whose timestamps are less than 100ms apart.  (sinceTimestamp is exact
\* below DedupWindow.)
C9_NoTwoEntriesWithinWindow ==
  \A d \in DeviceNames :
    LET log == deviceSpecificActions[d]
    IN  \A i, j \in DOMAIN log :
          (i < j /\ log[i].type = log[j].type /\ log[i].sinceTimestamp < DedupWindow)
            => log[i].sinceTimestamp - log[j].sinceTimestamp >= DedupWindow

\* C10: with click sync enabled, a recording session in which the user
\* clicked once, in pane P on an element with id X, leaves after stopRecording
\* exactly one click entry in the log of P's device name, with selector '#X'.
C10_OneClickOneEntry ==
  (/\ session.state = "stopped"
   /\ session.clean
   /\ session.settled
   /\ Len(session.clicks) = 1
   /\ Dom[session.clicks[1].el].id # "")
    => LET c == session.clicks[1]
           log == deviceSpecificActions[webviews[c.pane].deviceName]
           clicks == {i \in DOMAIN log : log[i].type = "click"}
       IN  /\ Cardinality(clicks) = 1
           /\ \A i \in clicks : log[i].data.selector = "#" \o Dom[c.el].id

\* C11: while recording, the entries appended to the log of a device name
\* are, in order and in type, the SyncEvents (scroll, click, hover, input)
\* that the dispatcher forwarded from the panes of that device name: a step
\* appends to the log exactly the events it forwards from such a pane.
C11_LogIsForwardedSequence ==
  [][(isRecording /\ isRecording')
       => \A d \in DeviceNames :
            LET old == deviceSpecificActions[d]
                new == deviceSpecificActions'[d]
                appended == [i \in 1..(Len(new) - Len(old)) |-> new[Len(old) + i].type]
                From(p) == /\ webviews[p].deviceName = d
                           /\ msgs[p] # <<>>
                           /\ msgs'[p] = Tail(msgs[p])
                forwarded ==
                  IF \E p \in Panes : From(p)
                  THEN LET m == Head(msgs[CHOOSE p \in Panes : From(p)])
                       IN  [i \in 1..(dispatched'[m.origin] - dispatched[m.origin])
                              |-> m.type]
                  ELSE <<>>
            IN  appended = forwarded]_vars

\* C12: a device log changes only by entries appended at its tail while
\* isRecording holds; apart from that it is only emptied, by startRecording,
\* by cancelMode, or by the end of a replay-capture cycle outside a
\* recording session.  (sinceTimestamp, the age of an entry, is not part of
\* the entry.)
C12_AppendOnlyWhileRecording ==
  [][LET Entries(log) == [i \in DOMAIN log |-> [log[i] EXCEPT !.sinceTimestamp = 0]]
         started == budget'.recordings # budget.recordings
         cycleEnded == replay'.cycles # replay.cycles
         cancelled == ~started /\ ~cycleEnded /\ uiMode # "default" /\ uiMode' = "default"
     IN  \A d \in DeviceNames :
           LET old == Entries(deviceSpecificActions[d])
               new == Entries(deviceSpecificActions'[d])
           IN  old # new
                 => \/ /\ isRecording
                       /\ Len(new) > Len(old)
                       /\ SubSeq(new, 1, Len(old)) = old
                    \/ new = <<>> /\ (started \/ cancelled)
                    \/ new = <<>> /\ cycleEnded /\ ~isRecording]_vars

\* C13, as amended: after cancelMode and after the end of a replay-capture
\* cycle every device log is empty; stopRecording leaves every log as it is
\* (the replay-capture cycle reads them).
C13_ClearedOnCancelAndReplay ==
  [][LET cycleEnded == replay'.cycles # replay.cycles
         cancelled == uiMode # "default" /\ uiMode' = "default" /\ ~cycleEnded
         stopped == isRecording /\ ~isRecording' /\ uiMode' = "replay"
     IN  /\ (cancelled \/ cycleEnded)
               => \A d \in DeviceNames : deviceSpecificActions'[d] = <<>>
         /\ stopped => deviceSpecificActions' = deviceSpecificActions]_vars

\* C13, reached: cancelMode emptied logs that held entries.
C13_Witness ==
  /\ session.state = "cancelled"
  /\ session.discarded > 0
  /\ uiMode = "default"
  /\ ~isRecording
  /\ \A d \in DeviceNames : deviceSpecificActions[d] = <<>>

\* C13, as stated: after stopRecording, after cancelMode and after the end
\* of a replay-capture cycle every device log is empty.
C13_ClearedOnStopCancelReplay ==
  [][LET stoppedOrCancelled == isRecording /\ ~isRecording'
         cycleEnded == replay'.cycles # replay.cycles
         cancelled == uiMode # "default" /\ uiMode' = "default" /\ ~cycleEnded
     IN  (stoppedOrCancelled \/ cancelled \/ cycleEnded)
           => \A d \in DeviceNames : deviceSpecificActions'[d] = <<>>]_vars

C15_FallsBackToTextSearch ==
  LET steps == capture.last.steps
  IN  \A k \in DOMAIN steps :
        (/\ steps[k].op = "probe"
         /\ steps[k].ok
         /\ steps[k].saw \in {"missing", "hidden", "mismatch"})
          => \E j \in DOMAIN steps : j > k /\ steps[j].op = "textSearch"

\* C16: when the text search of a replayed click finds no visible element
\* and the recorded entry carries the coordinates x and y, the replay clicks
\* the pointer at the recorded coordinates.
C16_FallsBackToCoordinates ==
  LET steps == capture.last.steps
  IN  \A k \in DOMAIN steps :
        (/\ steps[k].op = "textSearch"
         /\ steps[k].ok
         /\ steps[k].saw = "notFound"
         /\ HasField(capture.recordedActions[capture.last.i], "x")
         /\ HasField(capture.recordedActions[capture.last.i], "y"))
          => \E j \in DOMAIN steps : j > k /\ steps[j].op = "mouseAtCoordinates"

\* C17: in the text-search fallback the click tiers (b) driver click on the
\* marked element, (c) pointer click at the centre, (d) synthetic events and
\* click() are tried in this order, each only if the tier before threw, so
\* at most one of them succeeds for a replayed click.  ((a), the focus, is
\* not counted as a delivery.)
C17_AtMostOneTierSucceeds ==
  LET steps == capture.last.steps
      Tried(op) == \E k \in DOMAIN steps : steps[k].op = op
      Threw(op) == \E k \in DOMAIN steps : steps[k].op = op /\ ~steps[k].ok
      Succeeded(op) == \E k \in DOMAIN steps : steps[k].op = op /\ steps[k].ok
  IN  /\ Tried("mouseAtText")
           => Threw("mark") \/ Threw("clickMarked") \/ Threw("unmark")
      /\ Tried("dispatchEvents") => Threw("mouseAtText")
      /\ Cardinality({op \in {"clickMarked", "mouseAtText", "dispatchEvents"} :
                        Succeeded(op)}) <= 1

\* C18: the replay of a recorded input entry fills its target with the
\* recorded value.
C18_InputIsFilled ==
  (capture.last.i > 0 /\ capture.recordedActions[capture.last.i].type = "input")
    => \E k \in DOMAIN capture.last.steps : capture.last.steps[k].op = "fill"

\* C19: when capture-playwright-screenshot has returned or thrown, the
\* browser it launched is closed.
C19_BrowserClosedOnEveryPath ==
  capture.pc \in {"returned", "thrown"} => capture.browser # "open"

\* C20: when open-manual-browsers has returned success: false, every browser
\* that call launched is closed or is in manualBrowsers, where
\* close-manual-browsers finds it.
C20_FailedOpenLeavesNoBrowser ==
  (manual.pc = "returned" /\ manual.result = "failure")
    => \A b \in manual.launched :
         \/ b \notin manual.open
         \/ \E j \in DOMAIN manual.manualBrowsers : manual.manualBrowsers[j] = b

\* C21: capture failures are isolated per device.  In a cycle of screenshotAll
\* or screenshotAllWithReplay, totalCount is the number of panes when the cycle
\* starts and does not change; every step of the loop, also one whose capture
\* or file write failed, marks its index attempted and goes on to the next
\* index as long as the pane set has one; and the counts the cycle reports at
\* its end are the number of indices whose capture and write both succeeded
\* and that totalCount, every index of the pane set having been attempted.
C21_FailuresIsolated ==
  [][ /\ (cycle.pc = "idle" /\ cycle'.pc = "capturing")
         => cycle'.totalCount = Len(webviews) /\ cycle'.successCount = 0
      /\ (cycle.pc = "capturing" /\ cycle' # cycle)
         => /\ cycle'.saved \cup cycle'.failed = cycle.saved \cup cycle.failed \cup {cycle.i}
            /\ cycle'.saved \cap cycle'.failed = {}
            /\ cycle'.totalCount = cycle.totalCount
            /\ cycle.i < Len(webviews) => cycle'.pc = "capturing" /\ cycle'.i = cycle.i + 1
            /\ cycle'.pc = "idle"
               => /\ cycle'.report.successCount = Cardinality(cycle'.saved)
                  /\ cycle'.report.totalCount = cycle.totalCount
                  /\ 1..Len(webviews) \subseteq cycle'.saved \cup cycle'.failed ]_vars

\* A cycle over three panes ended: the first pane failed, the later ones were
\* saved, and 2/3 was reported.
C21_Witness ==
  /\ cycle.pc = "idle"
  /\ cycle.failed = {1}
  /\ cycle.saved = {2, 3}
  /\ cycle.report = [successCount |-> 2, totalCount |-> 3]

\* C22: loading a preset name that the mapping does not have is recoverable.
\* Whatever mapping the start-up code loaded, every call of loadPresetInternal
\* ends without exhausting the stack and leaves a pane set built from a preset
\* of the mapping.
C22_UnknownPresetRecovers ==
  shell.loads > 0
    => /\ ~shell.overflow
       /\ \E n \in DOMAIN shell.presets :
            LET listed == SelectSeq(shell.presets[n], LAMBDA d : d \in DOMAIN Devices)
            IN  /\ Len(webviews) = Len(listed)
                /\ \A i \in 1..Len(listed) : webviews[i].deviceName = listed[i]

\* C23: after loadPresetInternal(p) completed, the pane set has exactly one
\* pane per device name that the preset lists, in the order of the preset,
\* every pane was created by this call, and #deviceCount shows the number of
\* panes; also for a preset that lists a name the device table does not have.
C23_PaneSetIsPreset ==
  (shell.loads > 0 /\ ~shell.overflow)
    => /\ \E n \in DOMAIN shell.presets :
            /\ Len(webviews) = Len(shell.presets[n])
            /\ \A i \in 1..Len(webviews) : webviews[i].deviceName = shell.presets[n][i]
       /\ \A i \in 1..Len(webviews) : webviews[i].loadedBy = shell.loads
       /\ shell.deviceCount = Len(webviews)

\* C24: after any sequence of saveToHistory calls that starts from an empty
\* history, urlHistory has at most 20 entries and no URL twice, the entries
\* are in the order of their last save with the URL saved last at the head,
\* and the item of localStorage is the text of the list in memory.
C24_HistoryBoundedDistinctRecentFirst ==
  LET h == shell.urlHistory
      LastSave(url) ==
        CHOOSE k \in DOMAIN shell.savedAt :
          shell.savedAt[k] = url /\ \A j \in DOMAIN shell.savedAt : shell.savedAt[j] = url => j <= k
  IN  shell.saves > 0
        => /\ Len(h) <= 20
           /\ \A i, j \in DOMAIN h : i # j => h[i] # h[j]
           /\ h[1] = shell.savedAt[shell.saves]
           /\ \A i, j \in DOMAIN h : i < j => LastSave(h[i]) > LastSave(h[j])
           /\ \A k \in DOMAIN shell.savedAt :
                k > shell.saves - Len(h) => \E i \in DOMAIN h : h[i] = shell.savedAt[k]
           /\ shell.localStorage = Stringify(h)

\* More than 20 URLs were saved, one of them again after 20 others: the list
\* is full, the oldest URL was dropped and saved anew.
C24_Witness ==
  /\ Len(shell.urlHistory) = HistoryLimit
  /\ Cardinality({shell.savedAt[k] : k \in DOMAIN shell.savedAt}) > HistoryLimit
  /\ shell.saves > Cardinality({shell.savedAt[k] : k \in DOMAIN shell.savedAt})
  /\ shell.urlHistory[1] = shell.savedAt[1]

\* C25: listeners are removed before they are installed again.  After any
\* number of sync-setting changes a pane has at most one console-message sync
\* listener on the host side, so that one SYNC message is handled once.
C25_AtMostOneListener ==
  \A p \in Panes : webviews[p].listeners <= 1

C27_FlagHeldDuringApply ==
  [][ \A q \in Panes :
        (/\ pages[q].rafs # <<>>
         /\ pages'[q].rafs = Tail(pages[q].rafs)
         /\ ~Head(pages[q].rafs).stale)
        => /\ pages[q].isProcessingSync
           /\ msgs'[q] = msgs[q] ]_vars

\* C28: after every applySyncAction call in a pane, whether the action
\* succeeds, the selector misses or the action throws, isProcessingSync is
\* false again at some later time.
C28_FlagEventuallyCleared ==
  \A q \in Panes : pages[q].isProcessingSync ~> ~pages[q].isProcessingSync

\* An applySyncAction ran in a pane whose document has no element for the
\* selector: the flag is set, nothing was dispatched, the clearing timer is
\* armed.
C28_Witness ==
  \E q \in Panes :
    /\ webviews[q].url = BlankURL
    /\ pages[q].isProcessingSync
    /\ pages[q].rafs = <<>>
    /\ \E i \in DOMAIN pages[q].timers : pages[q].timers[i].kind = "clear"

\* C29: the click throttle.  Two SYNC:CLICK messages of the same pane are at
\* least 100ms apart, whatever the user clicks and however often the sync
\* script is installed anew in between: a pane emits a SYNC:CLICK message
\* only when 100ms or more have passed since its last one.
C29_ClickEmissionsApart ==
  [][ \A p \in Panes :
        (/\ Len(msgs'[p]) > Len(msgs[p])
         /\ msgs'[p][Len(msgs'[p])].type = "click")
        => pages[p].sinceEmit >= 100 ]_vars

\* C30: between every two replayed actions the engine performs the settle
\* delay and the network-idle wait.  The calls made for an action of the log,
\* also for one whose replay failed, end with the wait.
C30_SettleAfterEveryAction ==
  capture.last.i > 0
    => LET steps == capture.last.steps
       IN  steps # <<>> /\ steps[Len(steps)].op = "wait"

\* C31: when capture-manual-screenshots has returned, with success or after
\* a screenshot, a file write or a browser close threw, close has been called
\* on every browser manualBrowsers held and manualBrowsers is empty.
C31_CaptureTearsDownAll ==
  manual.op \in {"captured", "captureFailed"}
    => /\ manual.manualBrowsers = <<>>
       /\ manual.held \subseteq manual.closeTried

\* C36: after openManualMode, triggerRemoteScreenshot or cancelMode (with its
\* closeManualMode) has completed, manualModeActive holds exactly when
\* manualBrowsers of the main process is not empty, and the UI is in the
\* manual mode exactly when manualModeActive holds.
C36_ManualStateAgrees ==
  (manual.pc = "returned" /\ manual.op # "none")
    => /\ manual.active <=> (manual.manualBrowsers # <<>>)
       /\ (uiMode = "manual") <=> manual.active

\* C37: once a manual session that was opened has been ended by
\* triggerRemoteScreenshot or by cancelMode, the UI is in the default mode
\* and the Manual Mode button is enabled.
C37_ManualModeReenterable ==
  (manual.ended /\ manual.op \in {"captured", "cancel"})
    => uiMode = "default" /\ ~manual.btnDisabled

\* C32: in a cycle of screenshotAllWithReplay the deviceActions handed to the
\* capture of a pane are the log of the pane's device name as the cycle found
\* it when it started, which is the log recording stopped with (nothing is
\* stored while isRecording is false); for every pane the cycle has reached,
\* also after cancelMode ran during the cycle.
C32_HandedLogIsStoppedLog ==
  \A j \in DOMAIN replay.handed :
    replay.handed[j].deviceActions = replay.found[replay.handed[j].deviceName]

\* C33: every entry of a device log stems from the recording session that is
\* running.  When the completion callback of an apply script appends an entry
\* to the log of its pane, the script was issued during the recording session
\* that is running now, not before startRecording nor in an earlier session.
C33_EntriesOfCurrentSession ==
  [][\A q \in Panes :
       LET d == webviews[q].deviceName
       IN  (/\ execQueue[q] # <<>>
            /\ execQueue'[q] = Tail(execQueue[q])
            /\ Head(execQueue[q]).kind = "apply"
            /\ Len(deviceSpecificActions'[d]) > Len(deviceSpecificActions[d]))
             => Head(execQueue[q]).issuedIn = budget.recordings ]_vars

\* C34: with navigation sync on, navigation propagation quiesces in
\* agreement: from some point on no load is pending, no did-navigate event is
\* in flight and all panes show the same URL (so that only finitely many
\* loadURL calls are issued), also after two panes navigated to different
\* URLs at nearly the same time.
C34_NavigationQuiescesInAgreement ==
  <>[](\A p, q \in Panes :
         /\ webviews[p].loading = NoURL
         /\ webviews[p].navigated = <<>>
         /\ webviews[p].url = webviews[q].url)

\* C35: while isScreenshotting is true the resize handler does not rebuild
\* the pane set, also when its timer was armed by a resize event before the
\* cycle started and fires during the cycle; and isScreenshotting is false
\* whenever no cycle is running.
C35_NoRebuildWhileScreenshotting ==
  /\ ~shell.rebuiltWhileScreenshotting
  /\ cycle.pc = "idle" => ~cycle.isScreenshotting

\* C39: within a capture cycle every pane that was captured has a file of its
\* own: the files written are as many distinct files as successCount counts,
\* also for two panes of one device name; and a file name has the DPI suffix
\* exactly when the deviceScaleFactor of its pane is greater than 1.
C39_OneFilePerCapturedPane ==
  /\ Cardinality({cycle.written[k].filename : k \in DOMAIN cycle.written}) = cycle.successCount
  /\ \A k \in DOMAIN cycle.written :
       (cycle.written[k].dpiSuffix # "") <=> (cycle.written[k].deviceScaleFactor > 1)

====
